---- MODULE Spec2Model ----
(***************************************************************************)
(* Microsoft Graph API Explorer (python_app/main.py): the recursive mail   *)
(* folder discovery of MicrosoftGraphExplorer, its dynamic query-filter    *)
(* builder and its results window, as a state machine; with them the       *)
(* folder lookup and the message reader of app.py and the Flask login flow *)
(* of previous attempts/app.py.  Strings are sequences of one-character    *)
(* strings; a template placeholder such as {value} is one element.         *)
(***************************************************************************)
EXTENDS Integers, Sequences, FiniteSets, TLC

VARIABLES
    remote,            \* the remote mailbox: top-level listing and child listings
    access_token,      \* self.access_token
    auth_status,       \* text of self.auth_status_label
    user_folders,      \* self.user_folders
    selected_folder,   \* self.selected_folder: <<>> (None) or <<folder>>
    stack,             \* call stack of the running discovery pass (innermost last)
    pc,                \* "idle": the event loop waits; "loading": a pass runs
    requests,          \* child-folder listings issued in the current pass
    failed,            \* positions in user_folders whose child listing failed
    top_ok,            \* whether the top-level listing of the current pass succeeded
    printed,           \* number of error lines printed in the current pass
    passes,            \* number of discovery passes started
    selected_endpoint, \* self.selected_endpoint (0: None)
    selected_filters,  \* self.selected_filters
    filter_vars,       \* current widget values of the filter cards
    button_text,       \* text of each card's add button
    preview,           \* what the preview label of each card shows: a build result
    edits,             \* widget value changes since the cards were built, up to MaxEdits
    query_url,         \* the URL shown in the open results window (<<>>: none open)
    results,           \* what the open results window reports (None: none open)
    dialog,            \* title of the message box on screen (None: none)
    acquisition,       \* a call of MicrosoftEntraApp.acquire_token: what MSAL will
                       \* answer, the position in the call, the MSAL calls made so
                       \* far, the result held and what the call returned
    copied,            \* the URL put on the clipboard that the open "Copied" box shows
                       \* (<<>>: no such box is open)
    popup,             \* a call of show_results_popup followed line by line: the
                       \* response it will get, the position in the call and the
                       \* lines in results_text
    lookup,            \* a call of get_nested_folder_id (app.py, app3.py)
    reader,            \* a call of read_emails_from_nested_folder (app.py)
    web                \* the Flask login flow (previous attempts/app.py)

vars == <<remote, access_token, auth_status, user_folders, selected_folder, stack,
          pc, requests, failed, top_ok, printed, passes, selected_endpoint,
          selected_filters, filter_vars, preview, button_text, edits, query_url,
          results, dialog, copied, acquisition, popup, lookup, reader, web>>

script_vars == <<lookup, reader, web>>

walk_vars == <<user_folders, stack, pc, requests, failed, top_ok, printed, passes>>

filter_state == <<selected_endpoint, selected_filters, filter_vars, preview,
                  button_text, edits, query_url, results>>

-----------------------------------------------------------------------------
(* Bounds of the model *)

NumFolders == 4      \* folders of the small mailboxes
MaxChain == 12       \* longest single-branch mailbox (depths 0 .. MaxChain-1)
MaxFailures == 1     \* failing child listings per pass
MaxPasses == 2       \* discovery passes per session
MaxEdits == 1        \* widget value changes between two rebuilds of the filter cards
MaxSelected == 2     \* cap on Len(selected_filters)
MaxAccounts == 2     \* accounts in the token cache
MaxRecords == 30     \* cap on Len(user_folders); the code as written stays below it

-----------------------------------------------------------------------------
(* Strings *)

None == "None"

Range(s) == {s[i] : i \in 1..Len(s)}

RECURSIVE Join(_, _)
\* sep.join(parts)
Join(parts, sep) ==
    IF parts = <<>> THEN <<>>
    ELSE IF Len(parts) = 1 THEN parts[1]
    ELSE parts[1] \o sep \o Join(Tail(parts), sep)

RECURSIVE Spaces(_)
Spaces(n) == IF n = 0 THEN <<>> ELSE <<" ">> \o Spaces(n - 1)

FolderEmoji == <<"U+1F4C1", " ">>

-----------------------------------------------------------------------------
(* The remote mailbox *)

\* displayName the remote reports for folder f
DisplayNameOf(f) ==
    IF f % 3 = 2 THEN <<"A">> ELSE <<"I", "n">>

\* one element of a listing's "value" array
RawFolder(f) == [id |-> f, displayName |-> DisplayNameOf(f)]

RawList(ids) == [i \in 1..Len(ids) |-> RawFolder(ids[i])]

RECURSIVE Ascending(_)
\* the elements of a finite set of numbers, smallest first
Ascending(S) ==
    IF S = {} THEN <<>>
    ELSE LET m == CHOOSE x \in S : \A y \in S : x <= y
         IN <<m>> \o Ascending(S \ {m})

Reverse(s) == [i \in 1..Len(s) |-> s[Len(s) + 1 - i]]

\* the mailbox in which folder f lies under folder p[f] (0: top level) and every
\* listing reports its folders by ascending id, or by descending id
Forest(p, descending) ==
    LET listing(parent) ==
            LET asc == Ascending({f \in DOMAIN p : p[f] = parent})
            IN IF descending THEN Reverse(asc) ELSE asc
    IN [top |-> listing(0), children |-> [f \in DOMAIN p |-> listing(f)]]

\* every folder tree over 1..NumFolders (a folder's parent has a smaller id)
SmallMailboxes ==
    {Forest(p, d) :
        p \in {q \in [1..NumFolders -> 0..(NumFolders - 1)] :
                  \A f \in 1..NumFolders : q[f] < f},
        d \in BOOLEAN}

\* a single branch 1 -> 2 -> ... -> n
Chain(n) ==
    [top |-> <<1>>, children |-> [f \in 1..n |-> IF f < n THEN <<f + 1>> ELSE <<>>]]

ChainMailboxes == {Chain(n) : n \in (MaxChain - 2)..MaxChain}

\* mailboxes that are no trees: child listings that loop back to an ancestor
\* (a folder listing itself, a two-folder loop, loops with side branches) and a
\* folder listed under two parents
IrregularMailboxes ==
    { [top |-> <<1>>, children |-> [f \in 1..1 |-> <<1>>]],
      [top |-> <<1>>, children |-> [f \in 1..2 |-> IF f = 1 THEN <<2>> ELSE <<1>>]],
      [top |-> <<1, 2>>, children |-> [f \in 1..2 |-> IF f = 1 THEN <<2, 1>> ELSE <<>>]],
      [top |-> <<2>>, children |-> [f \in 1..3 |-> IF f = 2 THEN <<3>>
                                                   ELSE IF f = 3 THEN <<3, 1>> ELSE <<>>]],
      [top |-> <<1, 2>>, children |-> [f \in 1..3 |-> IF f = 3 THEN <<>> ELSE <<3>>]] }

RemoteSystems == SmallMailboxes \cup ChainMailboxes \cup IrregularMailboxes

\* outcomes of one GET
Outcomes == {"ok", "http_error", "raise"}

-----------------------------------------------------------------------------
(* Folder discovery *)

max_depth == 10

\* load_user_folders: the annotations of a top-level folder
TopRecord(folder) ==
    [id |-> folder.id,
     displayName |-> folder.displayName,
     depth |-> 0,
     indentDisplay |-> FolderEmoji \o folder.displayName,
     hierarchyName |-> folder.displayName]

\* variant: the path is built from the parent's displayName
ChildRecord_parentName(parent_folder, child, depth) ==
    [id |-> child.id,
     displayName |-> child.displayName,
     hierarchyName |-> parent_folder.displayName \o <<"/">> \o child.displayName,
     parentName |-> parent_folder.displayName,
     parentId |-> parent_folder.id,
     depth |-> depth + 1,
     indentDisplay |-> Spaces(2 * (depth + 1)) \o FolderEmoji \o child.displayName]

\* _load_child_folders_recursive: the annotations of a child of parent_folder
ChildRecord(parent_folder, child, depth) ==
    [id |-> child.id,
     displayName |-> child.displayName,
     hierarchyName |-> parent_folder.hierarchyName \o <<"/">> \o child.displayName,
     parentName |-> parent_folder.displayName,
     parentId |-> parent_folder.id,
     depth |-> depth + 1,
     indentDisplay |-> Spaces(2 * (depth + 1)) \o FolderEmoji \o child.displayName]

\* variants: the guard one level early, one level late, and absent
DepthLimitReached_early(depth) == depth >= max_depth - 1
DepthLimitReached_late(depth) == depth > max_depth
DepthLimitReached_never(depth) == FALSE

\* the guard at the head of _load_child_folders_recursive
DepthLimitReached(depth) == depth >= max_depth

\* a frame of _load_child_folders_recursive that has just been called
CallFrame(folder, depth, pos) ==
    [kind |-> "call", parent_folder |-> folder, depth |-> depth, pos |-> pos,
     todo |-> <<>>]

Top(s) == s[Len(s)]
Pop(s) == SubSeq(s, 1, Len(s) - 1)
ReplaceTop(s, f) == [s EXCEPT ![Len(s)] = f]

\* variant: the failure unwinds to load_user_folders, which ends its loop
AbandonBranch_unwind(s) == <<[kind |-> "top", todo |-> <<>>]>>

\* a failed child listing: _load_child_folders_recursive returns to its caller
AbandonBranch(s) == Pop(s)

\* variant: the children are taken last first
ChildListing_reversed(r, id) ==
    [i \in 1..Len(r.children[id]) |->
        RawFolder(r.children[id][Len(r.children[id]) + 1 - i])]

\* child_response.json().get("value", []) of a successful child listing
ChildListing(r, id) == RawList(r.children[id])

\* the event loop waits for a click on the main window: no pass runs, no message
\* box waits to be dismissed and no results window is open
GuiIdle == pc = "idle" /\ dialog = None /\ results = None

\* what acquire_token returns
TokenResults == {None, "token"}

\* variant: the list of the earlier pass is kept and appended to
load_user_folders_keeping(outcome) ==
    /\ passes' = passes + 1
    /\ top_ok' = (outcome = "ok")
    /\ printed' = IF outcome = "raise" THEN 1 ELSE 0
    /\ user_folders' = user_folders
    /\ requests' = {}
    /\ failed' = {}
    /\ stack' = <<[kind |-> "top",
                   todo |-> IF outcome = "ok" THEN RawList(remote.top) ELSE <<>>]>>
    /\ pc' = "loading"

\* load_user_folders, up to the start of its loop over the top-level folders
load_user_folders(outcome) ==
    /\ passes' = passes + 1
    /\ top_ok' = (outcome = "ok")
    /\ printed' = IF outcome = "raise" THEN 1 ELSE 0
    /\ user_folders' = <<>>
    /\ requests' = {}
    /\ failed' = {}
    /\ stack' = <<[kind |-> "top",
                   todo |-> IF outcome = "ok" THEN RawList(remote.top) ELSE <<>>]>>
    /\ pc' = "loading"

\* variant: the folders are loaded whether a token was acquired or not
authenticate_msal_unchecked ==
    /\ GuiIdle
    /\ passes < MaxPasses
    /\ \E tok \in TokenResults :
          /\ access_token' = tok
          /\ auth_status' = IF tok # None THEN "Authenticated" ELSE "Authentication failed"
          /\ \E outcome \in Outcomes : load_user_folders(outcome)
          /\ UNCHANGED dialog
    /\ UNCHANGED <<remote, acquisition, popup, script_vars, copied, selected_folder, filter_state>>

\* the Authenticate button
authenticate_msal ==
    /\ GuiIdle
    /\ passes < MaxPasses
    /\ \E tok \in TokenResults :
          /\ access_token' = tok
          /\ IF tok # None
             THEN /\ auth_status' = "Authenticated"
                  /\ \E outcome \in Outcomes : load_user_folders(outcome)
                  /\ UNCHANGED dialog
             ELSE /\ auth_status' = "Authentication failed"
                  /\ dialog' = "Error"
                  /\ UNCHANGED walk_vars
    /\ UNCHANGED <<remote, acquisition, popup, script_vars, copied, selected_folder, filter_state>>

\* load_user_folders: one iteration of the loop over the top-level folders
LoadTopFolder ==
    /\ pc = "loading"
    /\ Top(stack).kind = "top"
    /\ Top(stack).todo # <<>>
    /\ Len(user_folders) < MaxRecords
    /\ LET frame == Top(stack)
           rec == TopRecord(Head(frame.todo))
       IN /\ user_folders' = Append(user_folders, rec)
          /\ stack' = Append(ReplaceTop(stack, [frame EXCEPT !.todo = Tail(frame.todo)]),
                             CallFrame(rec, 0, Len(user_folders) + 1))
    /\ UNCHANGED <<remote, acquisition, popup, script_vars, copied, access_token, auth_status, selected_folder, pc, requests,
                   failed, top_ok, printed, passes, filter_state, dialog>>

\* _load_child_folders_recursive from its call to the start of its loop
ListChildFolders ==
    /\ pc = "loading"
    /\ Top(stack).kind = "call"
    /\ LET frame == Top(stack)
           parent_id == frame.parent_folder.id
       IN IF DepthLimitReached(frame.depth)
          THEN /\ stack' = Pop(stack)
               /\ UNCHANGED <<requests, failed, printed>>
          ELSE /\ requests' = requests \cup
                      {[folder |-> parent_id, depth |-> frame.depth, pos |-> frame.pos]}
               /\ \E outcome \in Outcomes :
                     /\ outcome # "ok" => Cardinality(failed) < MaxFailures
                     /\ stack' = IF outcome = "ok"
                                 THEN ReplaceTop(stack,
                                        [frame EXCEPT !.kind = "loop",
                                                      !.todo = ChildListing(remote, parent_id)])
                                 ELSE AbandonBranch(stack)
                     /\ failed' = IF outcome = "ok" THEN failed ELSE failed \cup {frame.pos}
                     /\ printed' = IF outcome = "raise" THEN printed + 1 ELSE printed
    /\ UNCHANGED <<remote, acquisition, popup, script_vars, copied, access_token, auth_status, user_folders, selected_folder, pc,
                   top_ok, passes, filter_state, dialog>>

\* _load_child_folders_recursive: one iteration of the loop over the child folders
LoadChildFolder ==
    /\ pc = "loading"
    /\ Top(stack).kind = "loop"
    /\ Top(stack).todo # <<>>
    /\ Len(user_folders) < MaxRecords
    /\ LET frame == Top(stack)
           rec == ChildRecord(frame.parent_folder, Head(frame.todo), frame.depth)
       IN /\ user_folders' = Append(user_folders, rec)
          /\ stack' = Append(ReplaceTop(stack, [frame EXCEPT !.todo = Tail(frame.todo)]),
                             CallFrame(rec, frame.depth + 1, Len(user_folders) + 1))
    /\ UNCHANGED <<remote, acquisition, popup, script_vars, copied, access_token, auth_status, selected_folder, pc, requests,
                   failed, top_ok, printed, passes, filter_state, dialog>>

\* _load_child_folders_recursive returns after its last child
ReturnFromChildren ==
    /\ pc = "loading"
    /\ Top(stack).kind = "loop"
    /\ Top(stack).todo = <<>>
    /\ stack' = Pop(stack)
    /\ UNCHANGED <<remote, acquisition, popup, script_vars, copied, access_token, auth_status, user_folders, selected_folder, pc,
                   requests, failed, top_ok, printed, passes, filter_state, dialog>>

\* load_user_folders returns; authenticate_msal shows the folder frame and reports
FinishLoad ==
    /\ pc = "loading"
    /\ Top(stack).kind = "top"
    /\ Top(stack).todo = <<>>
    /\ stack' = <<>>
    /\ pc' = "idle"
    /\ dialog' = "Success"
    /\ UNCHANGED <<remote, acquisition, popup, script_vars, copied, access_token, auth_status, user_folders, selected_folder,
                   requests, failed, top_ok, printed, passes, filter_state>>

\* the user dismisses the message box, which blocks the application until then
dismiss_dialog ==
    /\ pc = "idle"
    /\ dialog # None
    /\ dialog' = None
    /\ copied' = <<>>
    /\ UNCHANGED <<remote, acquisition, popup, script_vars, access_token, auth_status, selected_folder,
                   walk_vars,
                   filter_state>>

WalkStep ==
    \/ LoadTopFolder
    \/ ListChildFolders
    \/ LoadChildFolder
    \/ ReturnFromChildren
    \/ FinishLoad

-----------------------------------------------------------------------------
(* The discovery pass alone, over every mailbox of RemoteSystems *)

\* what an MSAL acquire call answers: None, a result with an access token, a
\* result without one, or an exception
CallOutcomes == {"none", "token", "error", "raise"}

\* no call of get_nested_folder_id is under way
NoLookup ==
    [pc |-> "idle", folder_names |-> <<>>, i |-> 0, current_id |-> 0, asked |-> <<>>,
     folders |-> <<>>, returned |-> "pending", printed |-> 0]

\* no call of read_emails_from_nested_folder is under way
NoReader ==
    [pc |-> "idle", folder_found |-> FALSE, listing |-> "ok", messages |-> <<>>,
     idx |-> 0, soup_text |-> 0, submissions |-> <<>>, printed |-> <<>>]

\* the Flask application before the first request of a client: the session
\* holds no state (0: None), nothing was asked for and nothing answered
NoWeb ==
    [session |-> 0, handled |-> 0, route |-> "none", state |-> 0, code |-> 0,
     posted |-> FALSE, status |-> 0, body |-> ""]

ScriptsIdle == lookup = NoLookup /\ reader = NoReader /\ web = NoWeb

\* no call of show_results_popup is followed
NoPopup ==
    [pc |-> "closed", url |-> "other", outcome |-> "raise", has_value |-> FALSE,
     value |-> <<>>, idx |-> 0, text |-> <<>>]

\* no call of acquire_token is under way
NoAcquisition ==
    [guarded |-> TRUE, app |-> TRUE, accounts |-> 0, silent |-> "none",
     interactive |-> "none", pc |-> "idle", calls |-> <<>>, result |-> "none",
     returned |-> "pending", printed |-> 0]

InitSession ==
    /\ access_token = None
    /\ auth_status = "Not authenticated"
    /\ user_folders = <<>>
    /\ selected_folder = <<>>
    /\ stack = <<>>
    /\ pc = "idle"
    /\ requests = {}
    /\ failed = {}
    /\ top_ok = FALSE
    /\ printed = 0
    /\ passes = 0
    /\ selected_endpoint = 0
    /\ selected_filters = <<>>
    /\ filter_vars = <<>>
    /\ preview = <<>>
    /\ button_text = <<>>
    /\ edits = 0
    /\ query_url = <<>>
    /\ results = None
    /\ dialog = None
    /\ copied = <<>>

InitFolders ==
    /\ acquisition = NoAcquisition
    /\ popup = NoPopup
    /\ ScriptsIdle
    /\ remote \in RemoteSystems
    /\ InitSession

NextFolders ==
    \/ authenticate_msal
    \/ WalkStep
    \/ dismiss_dialog

SpecFolders == InitFolders /\ [][NextFolders]_vars

\* the interpreter runs a started pass to its end
FairSpecFolders == SpecFolders /\ WF_vars(WalkStep)

-----------------------------------------------------------------------------
(* Text operations of the filter builder *)

\* the placeholders of the templates, by name
PlaceholderTable ==
    [value |-> "{value}", number |-> "{number}", datetime |-> "{datetime}",
     email |-> "{email}", text |-> "{text}", fields |-> "{fields}",
     field |-> "{field}", direction |-> "{direction}"]

\* the placeholder {k}
Placeholder(k) == PlaceholderTable[k]

IsPlaceholder(e) == \E k \in DOMAIN PlaceholderTable : PlaceholderTable[k] = e

\* sub in s
Contains(s, sub) ==
    \E i \in 1..(Len(s) - Len(sub) + 1) : SubSeq(s, i, i + Len(sub) - 1) = sub

RECURSIVE LStrip(_, _)
\* s.lstrip(c)
LStrip(s, c) == IF s # <<>> /\ Head(s) = c THEN LStrip(Tail(s), c) ELSE s

UpperCase == <<"A", "B", "C", "D", "E", "F", "G", "H", "I", "J", "K", "L", "M",
               "N", "O", "P", "Q", "R", "S", "T", "U", "V", "W", "X", "Y", "Z">>
LowerCase == <<"a", "b", "c", "d", "e", "f", "g", "h", "i", "j", "k", "l", "m",
               "n", "o", "p", "q", "r", "s", "t", "u", "v", "w", "x", "y", "z">>

\* s.lower()
Lower(s) ==
    [i \in 1..Len(s) |->
        IF \E k \in 1..26 : UpperCase[k] = s[i]
        THEN LowerCase[CHOOSE k \in 1..26 : UpperCase[k] = s[i]]
        ELSE s[i]]

RECURSIVE Flatten(_)
\* the concatenation of a sequence of strings
Flatten(parts) == IF parts = <<>> THEN <<>> ELSE Head(parts) \o Flatten(Tail(parts))

\* template.format(**repl): a KeyError when a placeholder has no replacement
Format(template, repl) ==
    IF \E i \in 1..Len(template) :
          IsPlaceholder(template[i])
          /\ \A k \in DOMAIN repl : template[i] # Placeholder(k)
    THEN [ok |-> FALSE, text |-> <<>>]
    ELSE [ok |-> TRUE,
          text |-> Flatten([i \in 1..Len(template) |->
                      IF IsPlaceholder(template[i])
                      THEN repl[CHOOSE k \in DOMAIN repl : template[i] = Placeholder(k)]
                      ELSE <<template[i]>>])]

\* result.replace("{key}", value)
Replace(template, key, value) ==
    Flatten([i \in 1..Len(template) |->
                IF template[i] = Placeholder(key) THEN value ELSE <<template[i]>>])

-----------------------------------------------------------------------------
(* load_endpoints: the endpoint catalog *)

\* "https://graph.microsoft.com/v1.0/me/messages"
MessagesUrl == <<"h", "t", "t", "p", "s", ":", "/", "/", "g", "r", "a", "p", "h", ".",
        "m", "i", "c", "r", "o", "s", "o", "f", "t", ".", "c", "o", "m", "/", "v", "1",
        ".", "0", "/", "m", "e", "/", "m", "e", "s", "s", "a", "g", "e", "s">>
\* "https://graph.microsoft.com/v1.0/me/mailFolders"
MailFoldersUrl == <<"h", "t", "t", "p", "s", ":", "/", "/", "g", "r", "a", "p", "h",
        ".", "m", "i", "c", "r", "o", "s", "o", "f", "t", ".", "c", "o", "m", "/", "v",
        "1", ".", "0", "/", "m", "e", "/", "m", "a", "i", "l", "F", "o", "l", "d", "e",
        "r", "s">>
\* "?$filter=isRead eq {value}"
T_ReadStatus == <<"?", "$", "f", "i", "l", "t", "e", "r", "=", "i", "s", "R", "e", "a",
        "d", " ", "e", "q", " ", "{value}">>
\* "?$filter=receivedDateTime ge {datetime}"
T_DateRange == <<"?", "$", "f", "i", "l", "t", "e", "r", "=", "r", "e", "c", "e", "i",
        "v", "e", "d", "D", "a", "t", "e", "T", "i", "m", "e", " ", "g", "e", " ",
        "{datetime}">>
\* "?$top={number}"
T_Top == <<"?", "$", "t", "o", "p", "=", "{number}">>
\* "?$filter=hasAttachments eq {value}"
T_Attachments == <<"?", "$", "f", "i", "l", "t", "e", "r", "=", "h", "a", "s", "A",
        "t", "t", "a", "c", "h", "m", "e", "n", "t", "s", " ", "e", "q", " ",
        "{value}">>
\* "?$filter=importance eq '{value}'"
T_Importance == <<"?", "$", "f", "i", "l", "t", "e", "r", "=", "i", "m", "p", "o", "r",
        "t", "a", "n", "c", "e", " ", "e", "q", " ", "'", "{value}", "'">>
\* "?$orderBy={field} {direction}"
T_OrderBy == <<"?", "$", "o", "r", "d", "e", "r", "B", "y", "=", "{field}", " ",
        "{direction}">>
\* "?$select={fields}"
T_Select == <<"?", "$", "s", "e", "l", "e", "c", "t", "=", "{fields}">>
\* "?$search="{text}""
T_Search == <<"?", "$", "s", "e", "a", "r", "c", "h", "=", "\"", "{text}", "\"">>
\* "?$filter=from/emailAddress/address eq '{email}'"
T_Sender == <<"?", "$", "f", "i", "l", "t", "e", "r", "=", "f", "r", "o", "m", "/",
        "e", "m", "a", "i", "l", "A", "d", "d", "r", "e", "s", "s", "/", "a", "d", "d",
        "r", "e", "s", "s", " ", "e", "q", " ", "'", "{email}", "'">>
\* "?$filter=displayName eq '{value}'"
T_FolderName == <<"?", "$", "f", "i", "l", "t", "e", "r", "=", "d", "i", "s", "p", "l",
        "a", "y", "N", "a", "m", "e", " ", "e", "q", " ", "'", "{value}", "'">>
\* "?$expand=childFolders"
T_Expand == <<"?", "$", "e", "x", "p", "a", "n", "d", "=", "c", "h", "i", "l", "d",
        "F", "o", "l", "d", "e", "r", "s">>
\* "true"
V_true == <<"t", "r", "u", "e">>
\* "false"
V_false == <<"f", "a", "l", "s", "e">>
\* "2025-01-15T00:00:00Z"
V_date == <<"2", "0", "2", "5", "-", "0", "1", "-", "1", "5", "T", "0", "0", ":", "0",
        "0", ":", "0", "0", "Z">>
\* "25"
V_25 == <<"2", "5">>
\* "50"
V_50 == <<"5", "0">>
\* "low"
V_low == <<"l", "o", "w">>
\* "normal"
V_normal == <<"n", "o", "r", "m", "a", "l">>
\* "high"
V_high == <<"h", "i", "g", "h">>
\* "receivedDateTime"
V_receivedDateTime == <<"r", "e", "c", "e", "i", "v", "e", "d", "D", "a", "t", "e",
        "T", "i", "m", "e">>
\* "subject"
V_subject == <<"s", "u", "b", "j", "e", "c", "t">>
\* "from"
V_from == <<"f", "r", "o", "m">>
\* "importance"
V_importance == <<"i", "m", "p", "o", "r", "t", "a", "n", "c", "e">>
\* "asc"
V_asc == <<"a", "s", "c">>
\* "desc"
V_desc == <<"d", "e", "s", "c">>
\* "isRead"
V_isRead == <<"i", "s", "R", "e", "a", "d">>
\* "hasAttachments"
V_hasAttachments == <<"h", "a", "s", "A", "t", "t", "a", "c", "h", "m", "e", "n", "t",
        "s">>
\* "body"
V_body == <<"b", "o", "d", "y">>
\* "project update"
V_projectUpdate == <<"p", "r", "o", "j", "e", "c", "t", " ", "u", "p", "d", "a", "t",
        "e">>
\* "example@company.com"
V_exampleEmail == <<"e", "x", "a", "m", "p", "l", "e", "@", "c", "o", "m", "p", "a",
        "n", "y", ".", "c", "o", "m">>
\* "Inbox"
V_Inbox == <<"I", "n", "b", "o", "x">>
\* "displayName"
V_displayName == <<"d", "i", "s", "p", "l", "a", "y", "N", "a", "m", "e">>
\* "unreadItemCount"
V_unreadItemCount == <<"u", "n", "r", "e", "a", "d", "I", "t", "e", "m", "C", "o", "u",
        "n", "t">>
\* "totalItemCount"
V_totalItemCount == <<"t", "o", "t", "a", "l", "I", "t", "e", "m", "C", "o", "u", "n",
        "t">>
\* "id"
V_id == <<"i", "d">>
\* "parentFolderId"
V_parentFolderId == <<"p", "a", "r", "e", "n", "t", "F", "o", "l", "d", "e", "r", "I",
        "d">>

\* the "filters" of "List Messages"
MessagesFilters ==
    << [name |-> "Filter by Read Status", template |-> T_ReadStatus, type |-> "boolean",
        options |-> <<V_true, V_false>>, default |-> V_false],
       [name |-> "Filter by Date Range", template |-> T_DateRange, type |-> "datetime",
        default |-> V_date],
       [name |-> "Limit Results", template |-> T_Top, type |-> "number",
        default |-> V_25, min |-> 1, max |-> 1000],
       [name |-> "Filter by Attachments", template |-> T_Attachments, type |-> "boolean",
        options |-> <<V_true, V_false>>, default |-> V_true],
       [name |-> "Filter by Importance", template |-> T_Importance, type |-> "select",
        options |-> <<V_low, V_normal, V_high>>, default |-> V_high],
       [name |-> "Order Results", template |-> T_OrderBy, type |-> "compound",
        fields |-> << [name |-> "field", type |-> "select",
                       options |-> <<V_receivedDateTime, V_subject, V_from, V_importance>>,
                       default |-> V_receivedDateTime],
                      [name |-> "direction", type |-> "select",
                       options |-> <<V_asc, V_desc>>, default |-> V_desc] >>],
       [name |-> "Select Fields", template |-> T_Select, type |-> "multiselect",
        options |-> <<V_subject, V_from, V_receivedDateTime, V_isRead, V_hasAttachments,
                      V_importance, V_body>>,
        default |-> <<V_subject, V_from, V_receivedDateTime, V_isRead>>],
       [name |-> "Search Content", template |-> T_Search, type |-> "text",
        default |-> V_projectUpdate],
       [name |-> "Filter by Sender", template |-> T_Sender, type |-> "email",
        default |-> V_exampleEmail] >>

\* the "filters" of "List Mail Folders"
MailFoldersFilters ==
    << [name |-> "Filter by Folder Name", template |-> T_FolderName, type |-> "text",
        default |-> V_Inbox],
       [name |-> "Select Folder Fields", template |-> T_Select, type |-> "multiselect",
        options |-> <<V_displayName, V_unreadItemCount, V_totalItemCount, V_id,
                      V_parentFolderId>>,
        default |-> <<V_displayName, V_unreadItemCount, V_totalItemCount>>],
       [name |-> "Order Folders", template |-> T_OrderBy, type |-> "compound",
        fields |-> << [name |-> "field", type |-> "select",
                       options |-> <<V_displayName, V_unreadItemCount, V_totalItemCount>>,
                       default |-> V_displayName],
                      [name |-> "direction", type |-> "select",
                       options |-> <<V_asc, V_desc>>, default |-> V_asc] >>],
       [name |-> "Expand Child Folders", template |-> T_Expand, type |-> "static"],
       [name |-> "Limit Results", template |-> T_Top, type |-> "number",
        default |-> V_50, min |-> 1, max |-> 500] >>

\* self.endpoints
endpoints ==
    << [name |-> "List Messages", url |-> MessagesUrl, filters |-> MessagesFilters],
       [name |-> "List Mail Folders", url |-> MailFoldersUrl,
        filters |-> MailFoldersFilters] >>

-----------------------------------------------------------------------------
(* The dynamic filter builder *)

\* texts typed into the Entry widgets (text, email, number and datetime inputs)
EntryTexts == {V_50, V_Inbox, <<"0">>}

\* create_*_input: the variables of a new filter card, at their defaults
InitialVars(config) ==
    CASE config.type = "boolean" -> [value |-> config.default]
      [] config.type = "text" -> [value |-> config.default]
      [] config.type = "email" -> [email |-> config.default]
      [] config.type = "number" -> [number |-> config.default]
      [] config.type = "datetime" -> [datetime |-> config.default]
      [] config.type = "select" -> [value |-> config.default]
      [] config.type = "multiselect" ->
            [fields |-> [i \in 1..Len(config.options) |->
                            config.options[i] \in Range(config.default)]]
      [] config.type = "compound" ->
            [k \in {config.fields[i].name : i \in 1..Len(config.fields)} |->
                LET i == CHOOSE i \in 1..Len(config.fields) : config.fields[i].name = k
                IN config.fields[i].default]
      [] config.type = "static" -> [static |-> TRUE]

RECURSIVE Checked_last_first(_, _)
\* variant: the checked options are collected from the last to the first
Checked_last_first(options, boxes) ==
    IF options = <<>> THEN <<>>
    ELSE Checked_last_first(Tail(options), Tail(boxes))
            \o (IF Head(boxes) THEN <<Head(options)>> ELSE <<>>)

RECURSIVE Checked(_, _)
\* [field for field, var in checkbox_vars.items() if var.get()]
Checked(options, boxes) ==
    IF options = <<>> THEN <<>>
    ELSE (IF Head(boxes) THEN <<Head(options)>> ELSE <<>>)
            \o Checked(Tail(options), Tail(boxes))

\* variant: the loop stops after the first sub-field
ReplaceFields_first_only(result, fields, fv) ==
    IF fields # <<>> /\ Head(fields).name \in DOMAIN fv
    THEN Replace(result, Head(fields).name, fv[Head(fields).name])
    ELSE result

RECURSIVE ReplaceFields(_, _, _)
\* the loop of the compound branch over filter_vars.items()
ReplaceFields(result, fields, fv) ==
    IF fields = <<>> THEN result
    ELSE ReplaceFields(
            IF Head(fields).name \in DOMAIN fv
            THEN Replace(result, Head(fields).name, fv[Head(fields).name])
            ELSE result,
            Tail(fields), fv)

\* build_filter_from_template; ok = FALSE: it raised
build_filter_from_template(template, fv, config) ==
    IF config.type = "static" THEN [ok |-> TRUE, text |-> template]
    ELSE IF config.type = "multiselect"
    THEN LET selected == Checked(config.options, fv.fields)
         IN Format(template,
                   [fields |-> Join(IF selected = <<>> THEN <<V_id>> ELSE selected,
                                    <<",">>)])
    ELSE IF config.type = "compound"
    THEN [ok |-> TRUE, text |-> ReplaceFields(template, config.fields, fv)]
    ELSE Format(template, fv)

\* the filter definitions of the selected endpoint
Cards == IF selected_endpoint = 0 THEN <<>> ELSE endpoints[selected_endpoint].filters

BuiltFilter(c) == build_filter_from_template(Cards[c].template, filter_vars[c], Cards[c])

\* the values the widgets of a card let the user set, as the card's new variables
Settable(config, fv) ==
    CASE config.type \in {"boolean", "select"} ->
            {[fv EXCEPT !.value = config.options[i]] : i \in 1..Len(config.options)}
      [] config.type = "text" -> {[fv EXCEPT !.value = t] : t \in EntryTexts}
      [] config.type = "email" -> {[fv EXCEPT !.email = t] : t \in EntryTexts}
      [] config.type = "number" -> {[fv EXCEPT !.number = t] : t \in EntryTexts}
      [] config.type = "datetime" -> {[fv EXCEPT !.datetime = t] : t \in EntryTexts}
      [] config.type = "multiselect" ->
            {[fv EXCEPT !.fields[i] = ~fv.fields[i]] : i \in 1..Len(config.options)}
      [] config.type = "compound" ->
            UNION {{[fv EXCEPT ![config.fields[i].name] = config.fields[i].options[j]] :
                        j \in 1..Len(config.fields[i].options)} :
                   i \in 1..Len(config.fields)}
      [] config.type = "static" -> {}

\* variant: the selection outlives the rebuild of the panel
ShowFilters_keeping(endpoint) ==
    /\ selected_endpoint' = endpoint
    /\ selected_filters' = selected_filters
    /\ filter_vars' = [c \in 1..Len(endpoints[endpoint].filters) |->
                          InitialVars(endpoints[endpoint].filters[c])]
    /\ preview' = [c \in 1..Len(endpoints[endpoint].filters) |->
                      LET config == endpoints[endpoint].filters[c]
                      IN build_filter_from_template(config.template,
                                                    InitialVars(config), config)]
    /\ button_text' = [c \in 1..Len(endpoints[endpoint].filters) |-> "Add Filter"]
    /\ edits' = 0

\* show_filtering_options: the panel is rebuilt for the endpoint
ShowFilters(endpoint) ==
    /\ selected_endpoint' = endpoint
    /\ selected_filters' = <<>>
    /\ filter_vars' = [c \in 1..Len(endpoints[endpoint].filters) |->
                          InitialVars(endpoints[endpoint].filters[c])]
    /\ preview' = [c \in 1..Len(endpoints[endpoint].filters) |->
                      LET config == endpoints[endpoint].filters[c]
                      IN build_filter_from_template(config.template,
                                                    InitialVars(config), config)]
    /\ button_text' = [c \in 1..Len(endpoints[endpoint].filters) |-> "Add Filter"]
    /\ edits' = 0

\* a click on an endpoint card
show_filtering_options ==
    /\ GuiIdle
    /\ \E endpoint \in 1..Len(endpoints) : ShowFilters(endpoint)
    /\ UNCHANGED <<remote, acquisition, popup, script_vars, copied, access_token, auth_status, selected_folder, walk_vars,
                   query_url, results, dialog>>

\* a widget variable of card c is written: update_preview runs
SetValue(c, fv) ==
    /\ filter_vars' = [filter_vars EXCEPT ![c] = fv]
    /\ preview' = [preview EXCEPT ![c] =
                      build_filter_from_template(Cards[c].template, fv, Cards[c])]

\* the user changes the value of one widget of a filter card
change_value ==
    /\ GuiIdle
    /\ edits < MaxEdits
    /\ \E c \in 1..Len(Cards) : \E fv \in Settable(Cards[c], filter_vars[c]) :
          /\ fv # filter_vars[c]
          /\ SetValue(c, fv)
    /\ edits' = edits + 1
    /\ UNCHANGED <<remote, acquisition, popup, script_vars, copied, access_token, auth_status, selected_folder, walk_vars,
                   selected_endpoint, selected_filters, button_text, query_url,
                   results, dialog>>

\* the user changes the value of one widget of the one card that is, or is to be,
\* away from its defaults
change_card_value ==
    /\ GuiIdle
    /\ \E c \in 1..Len(Cards) : \E fv \in Settable(Cards[c], filter_vars[c]) :
          /\ \A d \in 1..Len(Cards) : d # c => filter_vars[d] = InitialVars(Cards[d])
          /\ fv # filter_vars[c]
          /\ SetValue(c, fv)
    /\ edits' = IF edits < MaxEdits THEN edits + 1 ELSE edits
    /\ UNCHANGED <<remote, acquisition, popup, script_vars, copied, access_token, auth_status, selected_folder, walk_vars,
                   selected_endpoint, selected_filters, button_text, query_url,
                   results, dialog>>

\* variant: the fragment is appended whether it is selected or not
Toggled_appended(filters, built_filter) == Append(filters, built_filter)

\* variant: the removal takes the rest of the list with it
Toggled_truncated(filters, built_filter) ==
    IF built_filter \in Range(filters)
    THEN LET i == CHOOSE i \in 1..Len(filters) :
                    /\ filters[i] = built_filter
                    /\ \A j \in 1..(i - 1) : filters[j] # built_filter
         IN SubSeq(filters, 1, i - 1)
    ELSE Append(filters, built_filter)

\* add_dynamic_filter: selected_filters.remove(built_filter) if it is in the list,
\* selected_filters.append(built_filter) if not
Toggled(filters, built_filter) ==
    IF built_filter \in Range(filters)
    THEN LET i == CHOOSE i \in 1..Len(filters) :
                    /\ filters[i] = built_filter
                    /\ \A j \in 1..(i - 1) : filters[j] # built_filter
         IN SubSeq(filters, 1, i - 1) \o SubSeq(filters, i + 1, Len(filters))
    ELSE Append(filters, built_filter)

\* variant: a failed build empties the list before it is reported
add_dynamic_filter_dropping ==
    /\ GuiIdle
    /\ \E c \in 1..Len(Cards) :
          LET built == BuiltFilter(c)
          IN IF ~built.ok
             THEN /\ dialog' = "Error"
                  /\ selected_filters' = <<>>
                  /\ UNCHANGED button_text
             ELSE /\ Len(Toggled(selected_filters, built.text)) <= MaxSelected
                  /\ selected_filters' = Toggled(selected_filters, built.text)
                  /\ button_text' =
                        [button_text EXCEPT ![c] =
                            IF built.text \in Range(selected_filters)
                            THEN "Add Filter" ELSE "Remove"]
                  /\ UNCHANGED dialog
    /\ UNCHANGED <<remote, acquisition, popup, script_vars, copied, access_token, auth_status, selected_folder, walk_vars,
                   selected_endpoint, filter_vars, preview, edits, query_url, results>>

\* the add button of a filter card
add_dynamic_filter ==
    /\ GuiIdle
    /\ \E c \in 1..Len(Cards) :
          LET built == BuiltFilter(c)
          IN IF ~built.ok
             THEN /\ dialog' = "Error"
                  /\ UNCHANGED <<selected_filters, button_text>>
             ELSE /\ Len(Toggled(selected_filters, built.text)) <= MaxSelected
                  /\ selected_filters' = Toggled(selected_filters, built.text)
                  /\ button_text' =
                        [button_text EXCEPT ![c] =
                            IF built.text \in Range(selected_filters)
                            THEN "Add Filter" ELSE "Remove"]
                  /\ UNCHANGED dialog
    /\ UNCHANGED <<remote, acquisition, popup, script_vars, copied, access_token, auth_status, selected_folder, walk_vars,
                   selected_endpoint, filter_vars, preview, edits, query_url, results>>

\* the Clear Selected Filters button
clear_selected_filters ==
    /\ GuiIdle
    /\ selected_endpoint # 0
    /\ IF selected_filters = <<>>
       THEN /\ dialog' = "Info"
            /\ UNCHANGED <<selected_endpoint, selected_filters, filter_vars, preview,
                           button_text, edits>>
       ELSE /\ ShowFilters(selected_endpoint)
            /\ dialog' = "Cleared"
    /\ UNCHANGED <<remote, acquisition, popup, script_vars, copied, access_token, auth_status, selected_folder, walk_vars,
                   query_url, results>>

\* "https://graph.microsoft.com/v1.0/me/mailFolders/{folder_id}/messages"
FolderMessagesUrl(folder_id) ==
    MailFoldersUrl \o <<"/", ToString(folder_id)>>
        \o <<"/", "m", "e", "s", "s", "a", "g", "e", "s">>

\* variant: a selected folder scopes the query of every endpoint
BaseUrl_any_endpoint(endpoint_url, folder) ==
    IF folder # <<>>
    THEN FolderMessagesUrl(folder[1].id)
    ELSE endpoint_url

\* execute_selected_filters: the URL the query goes to
BaseUrl(endpoint_url, folder) ==
    IF Contains(Lower(endpoint_url), <<"m", "e", "s", "s", "a", "g", "e", "s">>)
       /\ folder # <<>>
    THEN FolderMessagesUrl(folder[1].id)
    ELSE endpoint_url

\* the copy button of a filter card
copy_dynamic_filter ==
    /\ GuiIdle
    /\ LET base_url == BaseUrl(endpoints[selected_endpoint].url, selected_folder)
       IN \E c \in 1..Len(Cards) :
             LET built == BuiltFilter(c)
             IN IF ~built.ok
                THEN /\ dialog' = "Error"
                     /\ UNCHANGED copied
                ELSE /\ dialog' = "Copied"
                     /\ copied' = base_url \o built.text
    /\ UNCHANGED <<remote, acquisition, popup, script_vars, access_token, auth_status, selected_folder,
                   walk_vars,
                   filter_state>>

\* variant: only the last fragment is looked at
HasTopParam_last(filters) ==
    filters # <<>> /\ Contains(filters[Len(filters)], <<"$", "t", "o", "p", "=">>)

\* any('$top=' in filter_str for filter_str in filters)
HasTopParam(filters) ==
    \E i \in 1..Len(filters) : Contains(filters[i], <<"$", "t", "o", "p", "=">>)

DefaultTop == <<"$", "t", "o", "p", "=", "1", "0", "0">>

\* "&".join([f.lstrip('?') for f in filters])
CombinedFilters(filters) ==
    Join([i \in 1..Len(filters) |-> LStrip(filters[i], "?")], <<"&">>)

\* variant: an empty list leaves the base URL without a query
ComposeUrl_no_default(base_url, filters) ==
    IF filters # <<>>
    THEN base_url \o <<"?">> \o CombinedFilters(filters)
            \o (IF HasTopParam(filters) THEN <<>> ELSE <<"&">> \o DefaultTop)
    ELSE base_url

\* execute_selected_filters: the URL composed from the base URL and the filters
ComposeUrl(base_url, filters) ==
    IF filters # <<>>
    THEN base_url \o <<"?">> \o CombinedFilters(filters)
            \o (IF HasTopParam(filters) THEN <<>> ELSE <<"&">> \o DefaultTop)
    ELSE base_url \o <<"?">> \o DefaultTop

\* show_results_popup: the lines written to the results window for the outcome
\* of the GET ({...}: the value the response or the exception carries)
results_text(outcome) ==
    CASE outcome = "ok" ->
            <<"Query executed successfully!", "Status Code: {response.status_code}",
              "{data}">>
      [] outcome = "http_error" ->
            <<"Query failed!", "Status Code: {response.status_code}",
              "Error: {response.text}">>
      [] outcome = "raise" -> <<"Error executing query: {str(e)}">>

\* variant: a failed query drops the folder selection
execute_selected_filters_resetting ==
    /\ GuiIdle
    /\ selected_endpoint # 0
    /\ IF access_token = None
       THEN /\ dialog' = "Warning"
            /\ UNCHANGED <<query_url, results, selected_folder>>
       ELSE /\ query_url' = ComposeUrl(
                                BaseUrl(endpoints[selected_endpoint].url, selected_folder),
                                selected_filters)
            /\ \E outcome \in Outcomes :
                    /\ results' = outcome
                    /\ selected_folder' = IF outcome = "ok" THEN selected_folder ELSE <<>>
            /\ UNCHANGED dialog
    /\ UNCHANGED <<remote, acquisition, popup, script_vars, copied, access_token, auth_status, walk_vars,
                   selected_endpoint, selected_filters, filter_vars, preview,
                   button_text, edits>>

\* the Execute button: the query is composed, sent, and its outcome shown in a
\* results window
execute_selected_filters ==
    /\ GuiIdle
    /\ selected_endpoint # 0
    /\ IF access_token = None
       THEN /\ dialog' = "Warning"
            /\ UNCHANGED <<query_url, results>>
       ELSE /\ query_url' = ComposeUrl(
                                BaseUrl(endpoints[selected_endpoint].url, selected_folder),
                                selected_filters)
            /\ \E outcome \in Outcomes : results' = outcome
            /\ UNCHANGED dialog
    /\ UNCHANGED <<remote, acquisition, popup, script_vars, copied, access_token, auth_status, selected_folder, walk_vars,
                   selected_endpoint, selected_filters, filter_vars, preview,
                   button_text, edits>>

\* the user closes the results window; the model lets the next click on the main
\* window follow only then, which leaves out no state of the main window
close_results ==
    /\ pc = "idle"
    /\ dialog = None
    /\ results # None
    /\ query_url' = <<>>
    /\ results' = None
    /\ UNCHANGED <<remote, acquisition, popup, script_vars, copied, access_token, auth_status, selected_folder, walk_vars,
                   selected_endpoint, selected_filters, filter_vars, preview,
                   button_text, edits, dialog>>

\* the folder browser: a click on the card of a folder
select_folder ==
    /\ GuiIdle
    /\ \E i \in 1..Len(user_folders) : selected_folder' = <<user_folders[i]>>
    /\ dialog' = "Folder Selected"
    /\ UNCHANGED <<remote, acquisition, popup, script_vars, copied, access_token, auth_status, walk_vars, filter_state>>

-----------------------------------------------------------------------------
(* The whole session, over a mailbox of two nested folders *)

SessionMailboxes == {Chain(2)}

Init ==
    /\ acquisition = NoAcquisition
    /\ popup = NoPopup
    /\ ScriptsIdle
    /\ remote \in SessionMailboxes
    /\ InitSession

Next ==
    \/ authenticate_msal
    \/ WalkStep
    \/ select_folder
    \/ show_filtering_options
    \/ change_value
    \/ add_dynamic_filter
    \/ copy_dynamic_filter
    \/ clear_selected_filters
    \/ execute_selected_filters
    \/ close_results
    \/ dismiss_dialog

Spec == Init /\ [][Next]_vars

-----------------------------------------------------------------------------
(* Token acquisition: MicrosoftEntraApp.acquire_token of python_app/main.py,   *)
(* which returns None without an MSAL application and on an exception, and     *)
(* acquire_token of app.py and app3.py, which has neither guard                *)

\* a call about to start: the variant of the function, whether self.app is set,
\* the accounts of the cache and the answers MSAL will give
AcquisitionInputs ==
    {[NoAcquisition EXCEPT !.guarded = g, !.app = a, !.accounts = n, !.silent = s,
                           !.interactive = i, !.pc = "start"] :
        <<g, a, n, s, i>> \in
            {t \in BOOLEAN \X BOOLEAN \X (0..MaxAccounts) \X CallOutcomes \X CallOutcomes :
                /\ ~t[1] => t[2]
                /\ ~t[2] => t[3] = 0}}

\* variant: the interactive call is made whatever the silent call gave
NeedsInteractive_always(result) == TRUE

\* if not result
NeedsInteractive(result) == result = "none"

\* result.get("access_token") if result and "access_token" in result else None
ReturnedToken(result) == IF result = "token" THEN "token" ELSE None

\* an MSAL call raised: main.py prints and returns None, app.py lets it escape
Raised(a) ==
    IF a.guarded
    THEN [a EXCEPT !.pc = "done", !.returned = None, !.printed = a.printed + 1]
    ELSE [a EXCEPT !.pc = "done", !.returned = "raised"]

session_vars == <<remote, access_token, auth_status, selected_folder, walk_vars,
                  filter_state, dialog, copied>>

token_vars == <<session_vars, popup, script_vars>>

\* acquire_token is called
acquire_token ==
    /\ acquisition.pc = "start"
    /\ acquisition' =
          IF acquisition.guarded /\ ~acquisition.app
          THEN [acquisition EXCEPT !.pc = "done", !.returned = None]
          ELSE [acquisition EXCEPT !.pc = "get_accounts"]
    /\ UNCHANGED token_vars

\* accounts = app.get_accounts(); without an account the result is None
get_accounts ==
    /\ acquisition.pc = "get_accounts"
    /\ acquisition' =
          IF acquisition.accounts > 0
          THEN [acquisition EXCEPT !.pc = "silent"]
          ELSE [acquisition EXCEPT
                   !.result = "none",
                   !.pc = IF NeedsInteractive("none") THEN "interactive" ELSE "return"]
    /\ UNCHANGED token_vars

\* result = app.acquire_token_silent(SCOPES, account=accounts[0])
acquire_token_silent ==
    /\ acquisition.pc = "silent"
    /\ LET called == [acquisition EXCEPT !.calls = Append(@, "silent")]
       IN acquisition' =
             IF acquisition.silent = "raise" THEN Raised(called)
             ELSE [called EXCEPT
                      !.result = acquisition.silent,
                      !.pc = IF NeedsInteractive(acquisition.silent)
                             THEN "interactive" ELSE "return"]
    /\ UNCHANGED token_vars

\* result = app.acquire_token_interactive(scopes=SCOPES)
acquire_token_interactive ==
    /\ acquisition.pc = "interactive"
    /\ LET called == [acquisition EXCEPT !.calls = Append(@, "interactive")]
       IN acquisition' =
             IF acquisition.interactive = "raise" THEN Raised(called)
             ELSE [called EXCEPT !.result = acquisition.interactive, !.pc = "return"]
    /\ UNCHANGED token_vars

\* the return statement
return_token ==
    /\ acquisition.pc = "return"
    /\ acquisition' = [acquisition EXCEPT !.pc = "done",
                                          !.returned = ReturnedToken(acquisition.result)]
    /\ UNCHANGED token_vars

InitToken ==
    /\ acquisition \in AcquisitionInputs
    /\ popup = NoPopup
    /\ ScriptsIdle
    /\ remote \in SessionMailboxes
    /\ InitSession

NextToken ==
    \/ acquire_token
    \/ get_accounts
    \/ acquire_token_silent
    \/ acquire_token_interactive
    \/ return_token

SpecToken == InitToken /\ [][NextToken]_vars

-----------------------------------------------------------------------------
(* The session without the filter cards: authentication, folder discovery,     *)
(* folder and endpoint selection, and the query                                *)

NextSession ==
    \/ authenticate_msal
    \/ WalkStep
    \/ select_folder
    \/ show_filtering_options
    \/ execute_selected_filters
    \/ close_results
    \/ dismiss_dialog

SpecSession == Init /\ [][NextSession]_vars

-----------------------------------------------------------------------------
(* The filter builder alone: the session before any authentication, or after a *)
(* successful one whose pass listed both folders                               *)

AuthenticatedSession ==
    LET inbox == TopRecord(RawFolder(1))
    IN /\ access_token = "token"
       /\ auth_status = "Authenticated"
       /\ user_folders = <<inbox, ChildRecord(inbox, RawFolder(2), 0)>>
       /\ selected_folder = <<>>
       /\ stack = <<>>
       /\ pc = "idle"
       /\ requests = {[folder |-> 1, depth |-> 0, pos |-> 1],
                      [folder |-> 2, depth |-> 1, pos |-> 2]}
       /\ failed = {}
       /\ top_ok = TRUE
       /\ printed = 0
       /\ passes = 1
       /\ selected_endpoint = 0
       /\ selected_filters = <<>>
       /\ filter_vars = <<>>
       /\ preview = <<>>
       /\ button_text = <<>>
       /\ edits = 0
       /\ query_url = <<>>
       /\ results = None
       /\ dialog = None
       /\ copied = <<>>

InitFilters ==
    /\ acquisition = NoAcquisition
    /\ popup = NoPopup
    /\ ScriptsIdle
    /\ remote \in SessionMailboxes
    /\ (InitSession \/ AuthenticatedSession)

NextFilters ==
    \/ select_folder
    \/ show_filtering_options
    \/ change_value
    \/ add_dynamic_filter
    \/ copy_dynamic_filter
    \/ clear_selected_filters
    \/ execute_selected_filters
    \/ close_results
    \/ dismiss_dialog

SpecFilters == InitFilters /\ [][NextFilters]_vars

-----------------------------------------------------------------------------
(* The cards of a panel, one at a time: every value the widgets of a card can  *)
(* take, the other cards at their defaults                                     *)

InitCards ==
    /\ acquisition = NoAcquisition
    /\ popup = NoPopup
    /\ ScriptsIdle
    /\ remote \in SessionMailboxes
    /\ InitSession

NextCards ==
    \/ show_filtering_options
    \/ change_card_value

SpecCards == InitCards /\ [][NextCards]_vars

-----------------------------------------------------------------------------
(* show_results_popup followed line by line: the response is received and,    *)
(* for a successful one, its items are written to results_text one by one     *)

MaxItems == 2        \* items in the "value" array of a response

\* the fields display_folders_results reads from a folder
FolderFields == {"displayName", "id", "totalItemCount", "unreadItemCount"}

\* the highest index of soup_text that display_messages_results reads
LastPiece == 17

\* a message of the response: whether it has a body with content, whether the
\* body holds a link (an <a> element), and the number of pieces that
\* get_text("|").split("|") gives for the body
Messages ==
    {[fields |-> {"body"} \cup l, pieces |-> n] :
        l \in {{}, {"link"}}, n \in {1, LastPiece - 1, LastPiece}}
    \cup {[fields |-> {}, pieces |-> 1]}

\* a folder of the response: the fields it has
ListedFolders == {[fields |-> F, pieces |-> 0] : F \in SUBSET FolderFields}

SeqsUpTo(S, n) == UNION {[1..k -> S] : k \in 0..n}

\* f"...{folder.get(field, 'Unknown')}"
FieldOrUnknown(folder, label, field) ==
    IF field \in folder.fields THEN label \o " {" \o field \o "}" ELSE label \o " Unknown"

\* display_folders_results: the lines for one folder
FolderLines(folder) ==
    <<FieldOrUnknown(folder, "Folder:", "displayName"),
      FieldOrUnknown(folder, "  ID:", "id"),
      FieldOrUnknown(folder, "  Total Items:", "totalItemCount"),
      FieldOrUnknown(folder, "  Unread Items:", "unreadItemCount"),
      "------------------------------">>

RECURSIVE AllFolderLines(_)
AllFolderLines(folders) ==
    IF folders = <<>> THEN <<>>
    ELSE FolderLines(Head(folders)) \o AllFolderLines(Tail(folders))

\* display_folders_results
display_folders_results(folders) ==
    <<"Found {len(folders)} mail folders:", "==">> \o AllFolderLines(folders)

\* display_messages_results, one message: soup.a["href"] needs a link in the body
\* and soup_text[LastPiece] needs that many pieces before it; a message without
\* a body gives BeautifulSoup an empty dict, and if that is accepted at all the
\* parsed document has no link
MessageRenders(msg) ==
    {"body", "link"} \subseteq msg.fields /\ msg.pieces + 1 > LastPiece

\* the lines written for a message that renders
MessageLines ==
    <<"{idx}", "{soup_text[1]}", "{soup_text[9]}", "{soup_text[11]}",
      "{soup_text[13]}", "{soup_text[15]}", "{soup_text[17]}", "{soup_text[-1]}", "">>

\* the first two lines of a successful query
SuccessLines == SubSeq(results_text("ok"), 1, 2)

\* a call of show_results_popup about to send its request
PopupCall(u, o, h, v) ==
    [pc |-> "loading", url |-> u, outcome |-> o, has_value |-> h, value |-> v,
     idx |-> 0, text |-> <<"Executing Microsoft Graph query with custom filters...">>]

\* the calls of show_results_popup that are followed: any response to a query
\* of the messages endpoint, of the mail-folders endpoint or of another one
PopupInputs ==
    {PopupCall(u, o, FALSE, <<>>) : u \in {"messages", "mailFolders", "other"},
                                    o \in Outcomes}
    \cup {PopupCall("messages", "ok", TRUE, v) : v \in SeqsUpTo(Messages, MaxItems)}
    \cup {PopupCall("mailFolders", "ok", TRUE, v) : v \in SeqsUpTo(ListedFolders, MaxItems)}
    \cup {PopupCall("other", "ok", TRUE, <<>>)}

\* response = requests.get(...) and what follows it up to the first message
receive_response ==
    /\ popup.pc = "loading"
    /\ LET messages == popup.value  \* data.get("value", [])
       IN popup' =
            IF popup.outcome # "ok"
            THEN [popup EXCEPT !.text = results_text(popup.outcome), !.pc = "shown"]
            ELSE IF popup.url = "messages"
            THEN [popup EXCEPT
                     !.text = SuccessLines
                                \o <<"Found {len(messages)} messages in '{folder_name}':",
                                     "==">>,
                     !.pc = IF messages = <<>> THEN "shown" ELSE "messages"]
            ELSE IF popup.url = "mailFolders"
            THEN [popup EXCEPT
                     !.text = SuccessLines \o display_folders_results(popup.value),
                     !.pc = "shown"]
            ELSE [popup EXCEPT
                     !.text = SuccessLines \o <<"Raw Response: {json.dumps(data)}">>,
                     !.pc = "shown"]
    /\ UNCHANGED <<acquisition, session_vars, script_vars>>

\* display_messages_results, one turn of its loop; an exception leaves the loop
\* and is caught in show_results_popup, which clears results_text and writes
\* the error
display_message ==
    /\ popup.pc = "messages"
    /\ LET msg == popup.value[popup.idx + 1]
           last == popup.idx + 1 = Len(popup.value)
       IN popup' =
            IF MessageRenders(msg)
            THEN [popup EXCEPT !.text = @ \o MessageLines,
                               !.idx = @ + 1,
                               !.pc = IF last THEN "shown" ELSE @]
            ELSE [popup EXCEPT !.text = results_text("raise"), !.pc = "shown"]
    /\ UNCHANGED <<acquisition, session_vars, script_vars>>

InitResults ==
    /\ acquisition = NoAcquisition
    /\ popup \in PopupInputs
    /\ ScriptsIdle
    /\ remote \in SessionMailboxes
    /\ InitSession

NextResults ==
    \/ receive_response
    \/ display_message

SpecResults == InitResults /\ [][NextResults]_vars

-----------------------------------------------------------------------------
(* get_nested_folder_id (app.py, app3.py): a folder path is resolved with one   *)
(* listing request per segment.  An id of 0 stands for None, a URL of 0 for the *)
(* top-level listing and a URL of f for the child listing of folder f.          *)

MaxSegments == 3     \* segments of a folder path

\* the names written in a path
SegmentNames == {<<"I", "N">>, <<"a">>, <<"X">>}

\* the folder paths looked up
FolderPaths ==
    {Join(names, <<"/">>) : names \in UNION {[1..k -> SegmentNames] : k \in 1..MaxSegments}}

RECURSIVE Split(_, _)
\* s.split(sep)
Split(s, sep) ==
    IF \A i \in 1..Len(s) : s[i] # sep THEN <<s>>
    ELSE LET k == CHOOSE i \in 1..Len(s) : s[i] = sep /\ \A j \in 1..(i - 1) : s[j] # sep
         IN <<SubSeq(s, 1, k - 1)>> \o Split(SubSeq(s, k + 1, Len(s)), sep)

\* res.json().get("value", []) of a successful listing at url
Listing(r, url) == IF url = 0 THEN RawList(r.top) ELSE RawList(r.children[url])

\* variant: the names are compared as written
FirstMatch_exact(folders, name) ==
    LET hits == {k \in 1..Len(folders) : folders[k].displayName = name}
    IN IF hits = {} THEN 0 ELSE CHOOSE k \in hits : \A j \in hits : k <= j

\* next((f for f in folders if f["displayName"].lower() == name.lower()), None):
\* the position of the match (0: None)
FirstMatch(folders, name) ==
    LET hits == {k \in 1..Len(folders) : Lower(folders[k].displayName) = Lower(name)}
    IN IF hits = {} THEN 0 ELSE CHOOSE k \in hits : \A j \in hits : k <= j

\* get_nested_folder_id is called with folder_path
LookupCall(folder_path) ==
    [pc |-> "request", folder_names |-> Split(folder_path, "/"), i |-> 1,
     current_id |-> 0, asked |-> <<>>, folders |-> <<>>, returned |-> "pending",
     printed |-> 0]

\* the URL of the next listing request
current_url == lookup.current_id

\* res = requests.get(current_url, headers=headers) and the test of res.ok; an
\* exception of the transport leaves get_nested_folder_id
list_folders ==
    /\ lookup.pc = "request"
    /\ \E outcome \in Outcomes :
          lookup' = [lookup EXCEPT
              !.asked = Append(@, [url |-> current_url, outcome |-> outcome]),
              !.folders = IF outcome = "ok" THEN Listing(remote, current_url) ELSE <<>>,
              !.pc = IF outcome = "ok" THEN "match" ELSE "done",
              !.returned = CASE outcome = "ok" -> @
                             [] outcome = "http_error" -> "None"
                             [] outcome = "raise" -> "raised",
              !.printed = IF outcome = "http_error" THEN @ + 1 ELSE @]
    /\ UNCHANGED <<acquisition, session_vars, popup, reader, web>>

\* the rest of the loop body, and the return after the last segment
match_folder ==
    /\ lookup.pc = "match"
    /\ LET name == lookup.folder_names[lookup.i]
           match == FirstMatch(lookup.folders, name)
       IN lookup' =
            IF match = 0
            THEN [lookup EXCEPT !.printed = @ + 1, !.pc = "done", !.returned = "None"]
            ELSE IF lookup.i < Len(lookup.folder_names)
            THEN [lookup EXCEPT !.current_id = lookup.folders[match].id,
                                !.i = @ + 1,
                                !.pc = "request"]
            ELSE [lookup EXCEPT !.current_id = lookup.folders[match].id,
                                !.pc = "done",
                                !.returned = "current_id"]
    /\ UNCHANGED <<acquisition, session_vars, popup, reader, web>>

InitLookup ==
    /\ acquisition = NoAcquisition
    /\ popup = NoPopup
    /\ reader = NoReader
    /\ web = NoWeb
    /\ lookup \in {LookupCall(folder_path) : folder_path \in FolderPaths}
    /\ remote \in SmallMailboxes
    /\ InitSession

NextLookup ==
    \/ list_folders
    \/ match_folder

SpecLookup == InitLookup /\ [][NextLookup]_vars

-----------------------------------------------------------------------------
(* read_emails_from_nested_folder (app.py): the messages of a folder are listed *)
(* and each one is fetched in full.  A text is written as the position of the   *)
(* message whose body it was taken from; soup_text = 0 is the unbound variable. *)

MaxMessages == 3     \* messages in the listing of the folder

\* a listed message: what the request for the full message answers, and
\* whether its body holds a link (an <a> element)
ListedMessages ==
    {[fetch |-> "ok", link |-> TRUE], [fetch |-> "ok", link |-> FALSE],
     [fetch |-> "http_error", link |-> TRUE], [fetch |-> "raise", link |-> TRUE]}

\* read_emails_from_nested_folder is called
ReaderCall(found, outcome, messages) ==
    [pc |-> "start", folder_found |-> found, listing |-> outcome, messages |-> messages,
     idx |-> 0, soup_text |-> 0, submissions |-> <<>>, printed |-> <<>>]

ReaderInputs ==
    {ReaderCall(FALSE, "ok", <<>>)}
    \cup {ReaderCall(TRUE, outcome, <<>>) : outcome \in Outcomes \ {"ok"}}
    \cup {ReaderCall(TRUE, "ok", messages) :
             messages \in SeqsUpTo(ListedMessages, MaxMessages)}

\* from the call to the start of the loop over the messages
list_messages ==
    /\ reader.pc = "start"
    /\ reader' =
         IF ~reader.folder_found
         THEN [reader EXCEPT !.printed = Append(@, "Folder path not found"), !.pc = "done"]
         ELSE IF reader.listing = "http_error"
         THEN [reader EXCEPT !.printed = Append(@, "Error fetching messages"), !.pc = "done"]
         ELSE IF reader.listing = "raise"
         THEN [reader EXCEPT !.pc = "raised"]
         ELSE IF reader.messages = <<>>
         THEN [reader EXCEPT !.printed = Append(@, "0"), !.pc = "done"]
         ELSE [reader EXCEPT !.pc = "loop", !.idx = 1]
    /\ UNCHANGED <<acquisition, session_vars, popup, lookup, web>>

\* one turn of the loop over the messages, and the count written after the last one;
\* soup_text is assigned only when the full message was fetched, and reading it
\* unbound, like soup.a["href"] on a body without a link, raises
read_message ==
    /\ reader.pc = "loop"
    /\ LET msg == reader.messages[reader.idx]
           last == reader.idx = Len(reader.messages)
           soup_text == IF msg.fetch = "ok" THEN reader.idx ELSE reader.soup_text
       IN reader' =
            IF msg.fetch = "raise" \/ (msg.fetch = "ok" /\ ~msg.link) \/ soup_text = 0
            THEN [reader EXCEPT !.pc = "raised"]
            ELSE [reader EXCEPT
                    !.soup_text = soup_text,
                    !.submissions = Append(@, soup_text),
                    !.idx = IF last THEN @ ELSE @ + 1,
                    !.printed = IF last THEN Append(@, ToString(Len(reader.submissions) + 1))
                                ELSE @,
                    !.pc = IF last THEN "done" ELSE @]
    /\ UNCHANGED <<acquisition, session_vars, popup, lookup, web>>

InitReader ==
    /\ acquisition = NoAcquisition
    /\ popup = NoPopup
    /\ lookup = NoLookup
    /\ web = NoWeb
    /\ reader \in ReaderInputs
    /\ remote \in SessionMailboxes
    /\ InitSession

NextReader ==
    \/ list_messages
    \/ read_message

SpecReader == InitReader /\ [][NextReader]_vars

-----------------------------------------------------------------------------
(* The Flask login flow (previous attempts/app.py): the requests of one client, *)
(* whose session cookie holds session['state'].  A state or code of 0 is an     *)
(* absent one (None).                                                           *)

MaxRequests == 3     \* requests of the client
NumStates == 3       \* distinct values of the state parameter

\* GET /
home ==
    /\ web.handled < MaxRequests
    /\ web' = [web EXCEPT !.handled = @ + 1, !.route = "home", !.state = 0, !.code = 0,
                          !.posted = FALSE, !.status = 200, !.body = "Login with Microsoft"]
    /\ UNCHANGED <<acquisition, session_vars, popup, lookup, reader>>

\* GET /login: a new state is stored in the session and sent along
login ==
    /\ web.handled < MaxRequests
    /\ \E uuid \in 1..NumStates :
          web' = [web EXCEPT !.session = uuid, !.handled = @ + 1, !.route = "login",
                             !.state = 0, !.code = 0, !.posted = FALSE, !.status = 302,
                             !.body = "redirect"]
    /\ UNCHANGED <<acquisition, session_vars, popup, lookup, reader>>

\* GET /callback?state=..&code=..: request.args.get('state') is compared with
\* session.get('state'), then the code goes to the token endpoint and the token
\* to Microsoft Graph; an exception makes Flask answer 500
callback ==
    /\ web.handled < MaxRequests
    /\ \E state \in 0..NumStates, code \in 0..1, token_res \in Outcomes, graph_res \in Outcomes :
          web' =
            IF state # web.session
            THEN [web EXCEPT !.handled = @ + 1, !.route = "callback", !.state = state,
                             !.code = code, !.posted = FALSE, !.status = 400,
                             !.body = "State mismatch"]
            ELSE [web EXCEPT !.handled = @ + 1, !.route = "callback", !.state = state,
                             !.code = code, !.posted = TRUE,
                             !.status = IF token_res = "raise" THEN 500
                                        ELSE IF token_res = "http_error" THEN 400
                                        ELSE IF graph_res = "raise" THEN 500
                                        ELSE IF graph_res = "http_error" THEN 400
                                        ELSE 200,
                             !.body = IF token_res = "raise" THEN "Internal Server Error"
                                      ELSE IF token_res = "http_error" THEN "Error getting token"
                                      ELSE IF graph_res = "raise" THEN "Internal Server Error"
                                      ELSE IF graph_res = "http_error" THEN "Graph API call failed"
                                      ELSE "User Profile"]
    /\ UNCHANGED <<acquisition, session_vars, popup, lookup, reader>>

InitWeb ==
    /\ acquisition = NoAcquisition
    /\ popup = NoPopup
    /\ lookup = NoLookup
    /\ reader = NoReader
    /\ web = NoWeb
    /\ remote \in SessionMailboxes
    /\ InitSession

NextWeb ==
    \/ home
    \/ login
    \/ callback

SpecWeb == InitWeb /\ [][NextWeb]_vars

-----------------------------------------------------------------------------
(* Reading the mailbox and the result list *)

Folders(r) == DOMAIN r.children

\* the listings (0: the top-level one) that report folder f
ListedUnder(r, f) ==
    {g \in Folders(r) : f \in Range(r.children[g])}
        \cup (IF f \in Range(r.top) THEN {0} ELSE {})

RECURSIVE PathTo(_, _, _)
\* the folders from the top level down to f, or <<>> when f hangs under no
\* top-level folder within fuel steps
PathTo(r, f, fuel) ==
    IF f \in Range(r.top) THEN <<f>>
    ELSE IF fuel = 0 \/ ListedUnder(r, f) = {} THEN <<>>
    ELSE LET up == PathTo(r, CHOOSE g \in ListedUnder(r, f) : TRUE, fuel - 1)
         IN IF up = <<>> THEN <<>> ELSE Append(up, f)

PathOf(r, f) == PathTo(r, f, Cardinality(Folders(r)))

\* every folder is reported by exactly one listing, exactly once, and hangs under
\* a top-level folder
IsTree(r) ==
    \A f \in Folders(r) :
        /\ Cardinality(ListedUnder(r, f)) = 1
        /\ Cardinality({i \in 1..Len(r.top) : r.top[i] = f}) <= 1
        /\ \A g \in Folders(r) :
              Cardinality({i \in 1..Len(r.children[g]) : r.children[g][i] = f}) <= 1
        /\ PathOf(r, f) # <<>>

TreeDepth(r) ==
    LET depths == {Len(PathOf(r, f)) - 1 : f \in Folders(r)}
    IN CHOOSE d \in depths : \A e \in depths : e <= d

RECURSIVE Below(_, _, _)
\* the folders reported at or below the folders of S
Below(r, S, fuel) ==
    IF fuel = 0 THEN S
    ELSE Below(r, S \cup UNION {Range(r.children[f]) : f \in S}, fuel - 1)

\* some folder reports itself or one of its ancestors as its child
HasLoop(r) ==
    \E f \in Folders(r) :
        f \in Below(r, Range(r.children[f]), Cardinality(Folders(r)))

PassDone == pc = "idle" /\ passes > 0

Positions == 1..Len(user_folders)

\* the position of the nearest earlier record that is shallower than record i
ParentPos(i) ==
    LET above == {j \in 1..(i - 1) : user_folders[j].depth < user_folders[i].depth}
    IN IF above = {} THEN 0 ELSE CHOOSE j \in above : \A k \in above : k <= j

IdsAt(positions) == [k \in 1..Len(positions) |-> user_folders[positions[k]].id]

RECURSIVE ParentsUpTo(_)
ParentsUpTo(n) == IF n = 0 THEN <<>> ELSE Append(ParentsUpTo(n - 1), ParentPos(n))

\* pv[i]: the position of the parent of record i (0: none)
ParentVector == ParentsUpTo(Len(user_folders))

\* the ids of the records placed directly under position p (0: top level), in order
ChildIdsIn(pv, p) == IdsAt(Ascending({i \in Positions : pv[i] = p}))

ChildIds(p) == ChildIdsIn(ParentVector, p)

IsPrefix(s, t) == Len(s) <= Len(t) /\ \A i \in 1..Len(s) : s[i] = t[i]

IsTopLevel(rec) == "parentId" \notin DOMAIN rec

-----------------------------------------------------------------------------
(* C1: for every folder tree no deeper than max_depth whose listings all       *)
(* succeed, a finished pass leaves every folder in user_folders exactly once,  *)
(* with hierarchyName the "/"-join of the display names from its top-level     *)
(* ancestor down to itself.                                                    *)

PathName(r, f) ==
    LET path == PathOf(r, f)
    IN Join([k \in 1..Len(path) |-> DisplayNameOf(path[k])], <<"/">>)

C1_EveryFolderOnce ==
    (PassDone /\ top_ok /\ failed = {} /\ IsTree(remote)
        /\ TreeDepth(remote) <= max_depth)
    => /\ \A f \in Folders(remote) :
             Cardinality({i \in Positions : user_folders[i].id = f}) = 1
       /\ \A i \in Positions :
             /\ user_folders[i].id \in Folders(remote)
             /\ user_folders[i].hierarchyName = PathName(remote, user_folders[i].id)

\* a finished pass over the single branch whose deepest folder lies at max_depth
C1_Witness ==
    /\ PassDone /\ top_ok /\ failed = {}
    /\ remote = Chain(max_depth + 1)
    /\ Len(user_folders) = max_depth + 1
    /\ user_folders[max_depth + 1].depth = max_depth

\* a finished pass over a branching tree
C1_WitnessBranching ==
    /\ PassDone /\ top_ok /\ failed = {}
    /\ IsTree(remote)
    /\ \E f \in Folders(remote) : Len(remote.children[f]) >= 2
    /\ Len(user_folders) = NumFolders

-----------------------------------------------------------------------------
(* C2: records are appended in depth-first pre-order: a record is only ever    *)
(* added at the end of the list; every record placed under a folder follows    *)
(* that folder with nothing of another branch in between, so the nearest       *)
(* earlier shallower record is its parent; and the records directly under a    *)
(* folder (and the top-level records) list their ids in the order of the       *)
(* remote listing.                                                             *)

C2_ParentFirst ==
    \A i \in Positions :
        IF IsTopLevel(user_folders[i])
        THEN ParentPos(i) = 0
        ELSE /\ ParentPos(i) > 0
             /\ user_folders[ParentPos(i)].id = user_folders[i].parentId

C2_ListingOrder ==
    LET pv == ParentVector
    IN /\ IsPrefix(ChildIdsIn(pv, 0), remote.top)
       /\ \A p \in Positions :
             IsPrefix(ChildIdsIn(pv, p), remote.children[user_folders[p].id])

C2_AppendOnly ==
    (pc = "loading" /\ pc' = "loading")
    => \/ user_folders' = user_folders
       \/ /\ Len(user_folders') = Len(user_folders) + 1
          /\ SubSeq(user_folders', 1, Len(user_folders)) = user_folders

C2_PreOrder == [](C2_ParentFirst /\ C2_ListingOrder) /\ [][C2_AppendOnly]_vars

\* a finished pass in which a folder with two children, the first of which has a
\* child of its own, was expanded
C2_Witness ==
    /\ PassDone
    /\ \E p \in Positions :
          /\ Len(ChildIds(p)) >= 2
          /\ \E i \in Positions : ParentPos(i) = p /\ ChildIds(i) # <<>>
                                  /\ \E j \in Positions : j > i /\ ParentPos(j) = p

-----------------------------------------------------------------------------
(* C3: in every state during and after a pass, a top-level record has depth 0  *)
(* and hierarchyName equal to its displayName; any other record has the depth  *)
(* of its parent record plus one and hierarchyName equal to the parent's       *)
(* hierarchyName, "/", and its own displayName.                                *)

C3_DepthAndHierarchy ==
    \A i \in Positions :
        LET rec == user_folders[i]
        IN IF IsTopLevel(rec)
           THEN /\ rec.depth = 0
                /\ rec.hierarchyName = rec.displayName
           ELSE /\ ParentPos(i) > 0
                /\ LET parent == user_folders[ParentPos(i)]
                   IN /\ parent.id = rec.parentId
                      /\ rec.depth = parent.depth + 1
                      /\ rec.hierarchyName =
                            parent.hierarchyName \o <<"/">> \o rec.displayName

\* a pass under way that has appended a record two levels below the top
C3_Witness ==
    /\ pc = "loading"
    /\ \E i \in Positions :
          /\ user_folders[i].depth = 2
          /\ Len(user_folders[i].hierarchyName) >= 5

-----------------------------------------------------------------------------
(* C4: over any mailbox, also one whose listings loop, no child listing is     *)
(* issued for a folder at depth >= max_depth, no record deeper than max_depth  *)
(* is appended, and returning at the bound changes nothing but the call stack: *)
(* nothing is printed, no branch is marked failed, no record is dropped.       *)

C4_Bounded ==
    /\ \A q \in requests : q.depth < max_depth
    /\ \A i \in Positions : user_folders[i].depth <= max_depth

C4_SilentStop ==
    (pc = "loading" /\ Top(stack).kind = "call" /\ Top(stack).depth >= max_depth)
    => /\ stack' = Pop(stack)
       /\ UNCHANGED <<user_folders, requests, failed, printed, pc, top_ok>>

C4_DepthBound == []C4_Bounded /\ [][C4_SilentStop]_vars

\* a finished pass over a looping mailbox that reached the bound, printed nothing
\* and kept its records
C4_Witness ==
    /\ PassDone /\ HasLoop(remote)
    /\ printed = 0 /\ failed = {}
    /\ \E i \in Positions : user_folders[i].depth = max_depth

-----------------------------------------------------------------------------
(* C5: over a mailbox in which a folder reports itself or an ancestor as its   *)
(* child, a started pass whose listing calls all return comes to its end.      *)

C5_Terminates == (pc = "loading" /\ HasLoop(remote)) ~> (pc = "idle")

\* a pass over a looping mailbox has ended
C5_Witness ==
    /\ PassDone /\ HasLoop(remote) /\ top_ok
    /\ Len(user_folders) > max_depth

-----------------------------------------------------------------------------
(* C6: when the child listing of a folder F fails (a non-success response or a *)
(* raised error) the pass still ends; F is in the list, nothing is placed      *)
(* under F, and every other folder above the depth bound has exactly the       *)
(* children its listing reports, as have the top-level folders.                *)

C6_BranchAbandoned ==
    PassDone
    => LET pv == ParentVector
       IN /\ \A p \in failed : p \in Positions /\ ChildIdsIn(pv, p) = <<>>
          /\ \A q \in Positions \ failed :
                user_folders[q].depth < max_depth
                => ChildIdsIn(pv, q) = remote.children[user_folders[q].id]
          /\ top_ok => ChildIdsIn(pv, 0) = remote.top

\* a finished pass in which the listing of a folder that has children failed and
\* a later sibling of that folder was expanded with its children
C6_Witness ==
    /\ PassDone
    /\ \E p \in failed :
          /\ remote.children[user_folders[p].id] # <<>>
          /\ \E q \in Positions :
                /\ q > p
                /\ ParentPos(q) = ParentPos(p)
                /\ ChildIds(q) # <<>>

-----------------------------------------------------------------------------
(* C7: after any pass over any mailbox no two records of user_folders share an *)
(* id, and the parentId of every record below the top level is the id of an    *)
(* earlier record.                                                              *)

C7_ParentEarlier ==
    \A i \in Positions :
        ~IsTopLevel(user_folders[i])
        => \E j \in 1..(i - 1) : user_folders[j].id = user_folders[i].parentId

C7_NoDuplicateIds ==
    PassDone
    => /\ \A i, j \in Positions :
             user_folders[i].id = user_folders[j].id => i = j
       /\ C7_ParentEarlier

-----------------------------------------------------------------------------
(* Reading a composed query *)

\* a results window shows the outcome of the query sent to query_url
Executed == results # None

\* the base URL the query of the present session state goes to
SessionBaseUrl == BaseUrl(endpoints[selected_endpoint].url, selected_folder)

\* the part of a URL after its first "?"
QueryPart(url) ==
    LET marks == {i \in 1..Len(url) : url[i] = "?"}
    IN IF marks = {} THEN <<>>
       ELSE SubSeq(url, (CHOOSE i \in marks : \A j \in marks : i <= j) + 1, Len(url))

\* the positions at which sub starts in s
Occurrences(s, sub) ==
    {i \in 1..(Len(s) - Len(sub) + 1) : SubSeq(s, i, i + Len(sub) - 1) = sub}

TopKey == <<"$", "t", "o", "p", "=">>

AppendedTop == <<"&", "$", "t", "o", "p", "=", "1", "0", "0">>

\* a fragment without its leading "?"
Unquestioned(f) == IF f # <<>> /\ f[1] = "?" THEN SubSeq(f, 2, Len(f)) ELSE f

RECURSIVE EndOf(_, _)
\* the position in the query of the last character of fragment i
EndOf(filters, i) ==
    IF i = 0 THEN 0
    ELSE EndOf(filters, i - 1) + (IF i > 1 THEN 1 ELSE 0) + Len(Unquestioned(filters[i]))

\* q is the fragments in order, each without its leading "?", with "&" between
\* neighbours, followed by "&$top=100" if and only if no fragment holds "$top="
Composed(q, filters) ==
    LET n == Len(filters)
        no_top == \A i \in 1..n : Occurrences(filters[i], TopKey) = {}
    IN /\ \A i \in 1..n :
             /\ SubSeq(q, EndOf(filters, i) - Len(Unquestioned(filters[i])) + 1,
                       EndOf(filters, i)) = Unquestioned(filters[i])
             /\ i < n => q[EndOf(filters, i) + 1] = "&"
       /\ Len(q) = EndOf(filters, n) + (IF no_top THEN Len(AppendedTop) ELSE 0)
       /\ no_top => SubSeq(q, EndOf(filters, n) + 1, Len(q)) = AppendedTop

-----------------------------------------------------------------------------
(* C8: whatever fragments were added, changed, cleared or re-selected before,   *)
(* the query composed by execute_selected_filters holds exactly one "$top="     *)
(* parameter, which is the default "$top=100" when no selected fragment holds   *)
(* one.                                                                         *)

C8_ExactlyOneTop ==
    Executed
    => /\ Cardinality(Occurrences(QueryPart(query_url), TopKey)) = 1
       /\ (\A i \in 1..Len(selected_filters) :
                Occurrences(selected_filters[i], TopKey) = {})
          => Occurrences(QueryPart(query_url), Tail(AppendedTop)) # {}

-----------------------------------------------------------------------------
(* C9: for a non-empty selected_filters the composed query is the fragments in *)
(* insertion order, each without its leading "?", joined by "&", with          *)
(* "&$top=100" appended if and only if no fragment holds "$top="; the          *)
(* fragments "?$filter=isRead eq false" and "$top=25" compose to               *)
(* "$filter=isRead eq false&$top=25".                                          *)

C9_Example ==
    ComposeUrl(<<>>, << <<"?", "$", "f", "i", "l", "t", "e", "r", "=", "i", "s", "R", "e",
                          "a", "d", " ", "e", "q", " ", "f", "a", "l", "s", "e">>,
                        <<"$", "t", "o", "p", "=", "2", "5">> >>)
        = <<"?", "$", "f", "i", "l", "t", "e", "r", "=", "i", "s", "R", "e", "a", "d", " ",
            "e", "q", " ", "f", "a", "l", "s", "e", "&", "$", "t", "o", "p", "=", "2", "5">>

C9_ComposedInOrder ==
    /\ C9_Example
    /\ Executed /\ selected_filters # <<>>
       => /\ query_url = SessionBaseUrl \o <<"?">> \o QueryPart(query_url)
          /\ Composed(QueryPart(query_url), selected_filters)

\* the read-status fragment and then the limit fragment were added and executed
C9_Witness ==
    /\ Executed
    /\ selected_filters =
          << <<"?", "$", "f", "i", "l", "t", "e", "r", "=", "i", "s", "R", "e", "a", "d",
               " ", "e", "q", " ", "f", "a", "l", "s", "e">>,
             <<"?", "$", "t", "o", "p", "=", "2", "5">> >>
    /\ QueryPart(query_url) =
          <<"$", "f", "i", "l", "t", "e", "r", "=", "i", "s", "R", "e", "a", "d", " ",
            "e", "q", " ", "f", "a", "l", "s", "e", "&", "$", "t", "o", "p", "=", "2", "5">>

\* a single fragment without "$top=" was executed and the default was appended
C9_WitnessDefault ==
    /\ Executed
    /\ selected_filters =
          << <<"?", "$", "f", "i", "l", "t", "e", "r", "=", "i", "s", "R", "e", "a", "d",
               " ", "e", "q", " ", "f", "a", "l", "s", "e">> >>
    /\ QueryPart(query_url) =
          <<"$", "f", "i", "l", "t", "e", "r", "=", "i", "s", "R", "e", "a", "d", " ",
            "e", "q", " ", "f", "a", "l", "s", "e">> \o AppendedTop

-----------------------------------------------------------------------------
(* C10: with an empty selected_filters the composed URL is the base URL        *)
(* followed by exactly "?$top=100".                                            *)

C10_EmptyList ==
    Executed /\ selected_filters = <<>>
    => query_url = SessionBaseUrl \o <<"?", "$", "t", "o", "p", "=", "1", "0", "0">>

\* List Messages was executed with nothing selected, for the folder of id 2
C10_Witness ==
    /\ Executed
    /\ selected_endpoint = 1
    /\ selected_filters = <<>>
    /\ selected_folder # <<>>
    /\ selected_folder[1].id = 2
    /\ QueryPart(query_url) = <<"$", "t", "o", "p", "=", "1", "0", "0">>

-----------------------------------------------------------------------------
(* Reading a click on an add button *)

\* the cards of the panel whose filter can be built
Buildable == {c \in 1..Len(Cards) : BuiltFilter(c).ok}

\* s without the fragment f
Without(s, f) == LET Other(x) == x # f IN SelectSeq(s, Other)

\* the step is a click on an add button that built its filter: the list changes,
\* at most the clicked button changes its text, and nothing else does
AddClick ==
    /\ GuiIdle
    /\ selected_filters' # selected_filters
    /\ selected_endpoint' = selected_endpoint
    /\ Cardinality({c \in 1..Len(Cards) : button_text'[c] # button_text[c]}) <= 1
    /\ filter_vars' = filter_vars
    /\ edits' = edits
    /\ dialog' = None
    /\ results' = None

-----------------------------------------------------------------------------
(* C11: adding a built fragment that is already in selected_filters removes it *)
(* instead of adding a second copy; adding the same built fragment twice in a  *)
(* row returns selected_filters to exactly its prior content; the relative     *)
(* order of all other fragments is unchanged by either step.                   *)

\* the claim as stated
C11_TwiceRestores ==
    GuiIdle =>
    \A c \in 1..Len(Cards) :
        LET built == BuiltFilter(c)
            f == built.text
            once == Toggled(selected_filters, f)
            twice == Toggled(once, f)
        IN built.ok =>
           /\ f \in Range(selected_filters)
              => f \notin Range(once) /\ Len(once) = Len(selected_filters) - 1
           /\ twice = selected_filters
           /\ Without(once, f) = Without(selected_filters, f)
           /\ Without(twice, f) = Without(selected_filters, f)

\* two clicks in a row restore the list when the fragment was not selected, and
\* move it to the end when it was
C11_TwiceState ==
    GuiIdle =>
    \A c \in 1..Len(Cards) :
        LET built == BuiltFilter(c)
            f == built.text
            once == Toggled(selected_filters, f)
            twice == Toggled(once, f)
        IN built.ok =>
           /\ f \in Range(selected_filters)
              => f \notin Range(once) /\ Len(once) = Len(selected_filters) - 1
           /\ f \notin Range(selected_filters) => twice = selected_filters
           /\ f \in Range(selected_filters)
              => twice = Append(Without(selected_filters, f), f)
           /\ Without(once, f) = Without(selected_filters, f)
           /\ Without(twice, f) = Without(selected_filters, f)

\* every click removes the built fragment of one card if it is selected and
\* puts it last if it is not
C11_Step ==
    AddClick
    => \E c \in 1..Len(Cards) :
          LET built == BuiltFilter(c)
              f == built.text
          IN /\ built.ok
             /\ selected_filters' = IF f \in Range(selected_filters)
                                    THEN Without(selected_filters, f)
                                    ELSE Append(selected_filters, f)

C11_Toggle == []C11_TwiceState /\ [][C11_Step]_vars

\* two fragments are selected and the card of the first still builds it: a click
\* on that card removes it, a second click puts it last
C11_Witness ==
    /\ GuiIdle
    /\ Len(selected_filters) = 2
    /\ \E c \in Buildable :
          /\ BuiltFilter(c).text = selected_filters[1]
          /\ button_text[c] = "Remove"
          /\ Toggled(Toggled(selected_filters, selected_filters[1]), selected_filters[1])
                = <<selected_filters[2], selected_filters[1]>>

-----------------------------------------------------------------------------
(* C12: in every reachable state of the session selected_filters holds no      *)
(* fragment more than once.                                                     *)

C12_NoDuplicates ==
    \A i, j \in 1..Len(selected_filters) :
        selected_filters[i] = selected_filters[j] => i = j

\* two fragments are selected, and the card that built the second still builds
\* it, so that one more click on that card meets the fragment in the list
C12_Witness ==
    /\ GuiIdle
    /\ Len(selected_filters) = 2
    /\ \E c \in Buildable : BuiltFilter(c).text = selected_filters[2]

-----------------------------------------------------------------------------
(* Reading the preview of a card *)

\* the template with its element at position p replaced by the text
Rendered(template, p, text) ==
    SubSeq(template, 1, p - 1) \o text \o SubSeq(template, p + 1, Len(template))

\* the positions of the template that hold the placeholder of key
PlacesOf(template, key) == {p \in 1..Len(template) : template[p] = Placeholder(key)}

RECURSIVE CheckedUpTo(_, _, _)
\* the checked ones of the first i options, in declared order, commas between
CheckedUpTo(options, boxes, i) ==
    IF i = 0 THEN <<>>
    ELSE LET before == CheckedUpTo(options, boxes, i - 1)
         IN IF ~boxes[i] THEN before
            ELSE IF before = <<>> THEN options[i]
            ELSE before \o <<",">> \o options[i]

-----------------------------------------------------------------------------
(* C13: build_filter_from_template for a multiselect definition renders the    *)
(* template with {fields} replaced by "id" when no option is checked, and      *)
(* otherwise by the checked option names joined with commas in the declared    *)
(* option order, whatever the order in which the boxes were checked.           *)

C13_Multiselect ==
    \A c \in 1..Len(Cards) :
        Cards[c].type = "multiselect"
        => LET boxes == filter_vars[c].fields
               options == Cards[c].options
               p == CHOOSE p \in PlacesOf(Cards[c].template, "fields") : TRUE
           IN /\ Cardinality(PlacesOf(Cards[c].template, "fields")) = 1
              /\ preview[c].ok
              /\ preview[c].text =
                    Rendered(Cards[c].template, p,
                             IF \A i \in 1..Len(options) : ~boxes[i]
                             THEN <<"i", "d">>
                             ELSE CheckedUpTo(options, boxes, Len(options)))

\* every box of "Select Fields" was unchecked and the preview shows "?$select=id"
C13_Witness ==
    /\ selected_endpoint = 1
    /\ \A i \in 1..Len(Cards[7].options) : ~filter_vars[7].fields[i]
    /\ preview[7].text = <<"?", "$", "s", "e", "l", "e", "c", "t", "=", "i", "d">>

\* the last and the first box of "Select Fields" are the checked ones
C13_WitnessOrder ==
    /\ selected_endpoint = 1
    /\ \A i \in 1..Len(Cards[7].options) : filter_vars[7].fields[i] <=> i \in {1, 7}
    /\ preview[7].text = <<"?", "$", "s", "e", "l", "e", "c", "t", "=">>
                            \o V_subject \o <<",">> \o V_body

RECURSIVE Substituted(_, _)
\* the template with every placeholder whose key has a value replaced by that
\* value, and everything else as it is
Substituted(template, values) ==
    IF template = <<>> THEN <<>>
    ELSE LET keys == {k \in DOMAIN values : Head(template) = Placeholder(k)}
         IN (IF keys = {} THEN <<Head(template)>> ELSE values[CHOOSE k \in keys : TRUE])
               \o Substituted(Tail(template), values)

-----------------------------------------------------------------------------
(* C14: build_filter_from_template for a compound definition replaces each     *)
(* declared sub-field's same-named placeholder with the chosen value of that   *)
(* sub-field and leaves every placeholder of an undeclared sub-field untouched; *)
(* field "subject" and direction "asc" in "?$orderBy={field} {direction}" give *)
(* "?$orderBy=subject asc".                                                    *)

\* only "field" is declared: {direction} stays in the result
C14_Undeclared ==
    build_filter_from_template(
        T_OrderBy, [field |-> V_subject],
        [type |-> "compound",
         fields |-> << [name |-> "field", type |-> "select",
                        options |-> <<V_subject>>, default |-> V_subject] >>])
      = [ok |-> TRUE,
         text |-> <<"?", "$", "o", "r", "d", "e", "r", "B", "y", "=", "s", "u", "b", "j",
                    "e", "c", "t", " ", "{direction}">>]

C14_Compound ==
    /\ C14_Undeclared
    /\ \A c \in 1..Len(Cards) :
          Cards[c].type = "compound"
          => /\ preview[c].ok
             /\ preview[c].text = Substituted(Cards[c].template, filter_vars[c])
             /\ filter_vars[c].field = V_subject /\ filter_vars[c].direction = V_asc
                => preview[c].text = <<"?", "$", "o", "r", "d", "e", "r", "B", "y", "=", "s", "u", "b", "j", "e", "c", "t", " ", "a", "s", "c">>

\* "Order Results" was set to field subject and direction asc
C14_Witness ==
    /\ selected_endpoint = 1
    /\ Cards[6].type = "compound"
    /\ filter_vars[6] = [field |-> V_subject, direction |-> V_asc]
    /\ InitialVars(Cards[6]) = [field |-> V_receivedDateTime, direction |-> V_desc]
    /\ preview[6].text = <<"?", "$", "o", "r", "d", "e", "r", "B", "y", "=", "s", "u", "b", "j", "e", "c", "t", " ", "a", "s", "c">>

-----------------------------------------------------------------------------
(* C15: for every shipped filter definition of type boolean, text, email,      *)
(* number, datetime or select, building the filter from the current value of   *)
(* its widget succeeds and returns the template with its placeholder replaced  *)
(* verbatim by that value, no placeholder left.                                *)

SimpleTypes == {"boolean", "text", "email", "number", "datetime", "select"}

\* the one value a card of a simple type holds
ValueOf(c) == filter_vars[c][CHOOSE k \in DOMAIN filter_vars[c] : TRUE]

RECURSIVE AllReplaced(_, _)
\* the template with each of its placeholders replaced by the value
AllReplaced(template, value) ==
    IF template = <<>> THEN <<>>
    ELSE (IF IsPlaceholder(Head(template)) THEN value ELSE <<Head(template)>>)
            \o AllReplaced(Tail(template), value)

\* card c builds its template with the value in the place of the placeholder
BuildsVerbatim(c) ==
    /\ preview[c].ok
    /\ preview[c].text = AllReplaced(Cards[c].template, ValueOf(c))

C15_SimpleTypes ==
    \A c \in 1..Len(Cards) : Cards[c].type \in SimpleTypes => BuildsVerbatim(c)

\* every card of a simple type but "Search Content" builds verbatim, and
\* "Search Content" never builds
C15_AllButSearch ==
    \A c \in 1..Len(Cards) :
        Cards[c].type \in SimpleTypes
        => IF Cards[c].name = "Search Content" THEN ~preview[c].ok ELSE BuildsVerbatim(c)

-----------------------------------------------------------------------------
(* C16: building a number-type filter fails with a build error whenever the    *)
(* entered value is not convertible to an integer or lies outside the declared *)
(* min/max of the definition; no fragment is produced for such a value.        *)

DigitValue == [d \in {"0", "1", "2", "3", "4", "5", "6", "7", "8", "9"} |->
                  CHOOSE n \in 0..9 : ToString(n) = d]

\* the text is a sequence of decimal digits
IntegerText(t) == t # <<>> /\ \A i \in 1..Len(t) : t[i] \in DOMAIN DigitValue

RECURSIVE IntegerOf(_)
IntegerOf(t) ==
    IF t = <<>> THEN 0
    ELSE 10 * IntegerOf(SubSeq(t, 1, Len(t) - 1)) + DigitValue[t[Len(t)]]

\* the text is an integer within the declared range of the definition
InRange(t, config) ==
    IntegerText(t) /\ config.min <= IntegerOf(t) /\ IntegerOf(t) <= config.max

C16_NumberValidated ==
    \A c \in 1..Len(Cards) :
        Cards[c].type = "number" /\ ~InRange(filter_vars[c].number, Cards[c])
        => ~preview[c].ok /\ ~BuiltFilter(c).ok

\* whatever the entry holds, the card builds "?$top=" followed by the entry
C16_NoValidation ==
    \A c \in 1..Len(Cards) :
        Cards[c].type = "number"
        => /\ preview[c].ok
           /\ preview[c].text = <<"?", "$", "t", "o", "p", "=">> \o filter_vars[c].number

-----------------------------------------------------------------------------
(* C17: when building a filter raises during preview, add or copy, the error   *)
(* is reported at that point and selected_filters is left exactly as it was;   *)
(* the filters added before remain selected and usable.                        *)

\* everything of the session but the message box
behind_dialog == <<remote, access_token, auth_status, selected_folder, walk_vars,
                   filter_state>>

\* the preview label of a card whose build raises shows the error
C17_PreviewReports ==
    GuiIdle => \A c \in 1..Len(Cards) : ~BuiltFilter(c).ok => ~preview[c].ok

\* an error box comes up only for a card whose build raises, over an unchanged
\* session, and dismissing it gives the session back as it was before the click
C17_ErrorStep ==
    /\ dialog = None /\ dialog' = "Error"
       => /\ \E c \in 1..Len(Cards) : ~BuiltFilter(c).ok
          /\ UNCHANGED behind_dialog
          /\ copied' = <<>>
    /\ dialog = "Error"
       => /\ dialog' = None
          /\ UNCHANGED behind_dialog

C17_BuildErrorContained == []C17_PreviewReports /\ [][C17_ErrorStep]_vars

\* an error box is up while two filters added before are selected
C17_Witness ==
    /\ dialog = "Error"
    /\ Len(selected_filters) = 2
    /\ \E c \in 1..Len(Cards) : ~BuiltFilter(c).ok /\ ~preview[c].ok

-----------------------------------------------------------------------------
(* C18: no mail-API request (top-level folder listing, child-folder listing,   *)
(* query execution) is issued while access_token is absent; when token         *)
(* acquisition yields no token the folder load is not started, the failure is  *)
(* shown to the user, and no further acquisition attempt happens without a new *)
(* user action.                                                                *)

\* a discovery pass runs, and a results window is open, only with a token
C18_TokenHeld ==
    /\ pc = "loading" => access_token # None
    /\ results # None => access_token # None
    /\ dialog = "Warning" => access_token = None /\ results = None

C18_Step ==
    \* the top-level listing goes out with the token just acquired
    /\ passes' # passes => access_token' # None
    \* a child listing and a query go out with the token held
    /\ requests' \ requests # {} => access_token # None /\ access_token' = access_token
    /\ results = None /\ results' # None => access_token # None
    \* an acquisition without a result starts no load and is shown
    /\ GuiIdle /\ access_token' = None /\ (access_token # None \/ auth_status' # auth_status)
       => /\ dialog' = "Error"
          /\ auth_status' = "Authentication failed"
          /\ UNCHANGED walk_vars
    \* and nothing follows it but the user's dismissal of the box
    /\ dialog = "Error"
       => dialog' = None /\ UNCHANGED <<access_token, auth_status, walk_vars, filter_state>>

C18_NoRequestWithoutToken == []C18_TokenHeld /\ [][C18_Step]_vars

\* a later acquisition lost the token of a finished pass, and Execute was refused
C18_Witness ==
    /\ access_token = None
    /\ auth_status = "Authentication failed"
    /\ passes > 0
    /\ selected_endpoint # 0
    /\ dialog = "Warning"
    /\ results = None

-----------------------------------------------------------------------------
(* C19: acquire_token attempts silent (cached) acquisition first whenever a    *)
(* previously used account exists, attempts interactive acquisition only when  *)
(* the silent attempt was not made or produced no result, and returns the      *)
(* access token if the final result carries one and absent otherwise.          *)

\* the answer of the last MSAL call made ("none": no call was made)
FinalResult ==
    IF acquisition.calls = <<>> THEN "none"
    ELSE IF acquisition.calls[Len(acquisition.calls)] = "silent" THEN acquisition.silent
    ELSE acquisition.interactive

\* the calls made so far, at every point of the call
C19_Order ==
    LET calls == acquisition.calls
    IN /\ acquisition.pc \in {"interactive", "return", "done"}
          /\ acquisition.accounts > 0 /\ acquisition.app
          => calls # <<>> /\ calls[1] = "silent"
       /\ \A i \in 1..Len(calls) :
             calls[i] = "interactive"
             => /\ i = Len(calls)
                /\ \/ i = 1 /\ acquisition.accounts = 0
                   \/ i = 2 /\ calls[1] = "silent" /\ acquisition.silent = "none"
       /\ \A i \in 1..Len(calls) : calls[i] = "silent" => i = 1 /\ acquisition.accounts > 0

\* what the finished call returned
C19_Returned ==
    acquisition.pc = "done" /\ acquisition.returned # "raised"
    => acquisition.returned = IF FinalResult = "token" THEN "token" ELSE None

\* a call made is never taken back
C19_CallsGrow ==
    \E n \in 0..1 :
        /\ Len(acquisition'.calls) = Len(acquisition.calls) + n
        /\ SubSeq(acquisition'.calls, 1, Len(acquisition.calls)) = acquisition.calls

C19_SilentFirst == [](C19_Order /\ C19_Returned) /\ [][C19_CallsGrow]_vars

\* an account was cached, the silent call gave nothing, the interactive call gave
\* a token, and the token was returned
C19_Witness ==
    /\ acquisition.pc = "done"
    /\ acquisition.accounts > 0
    /\ acquisition.silent = "none"
    /\ acquisition.calls = <<"silent", "interactive">>
    /\ acquisition.returned = "token"

-----------------------------------------------------------------------------
(* C20 *)

\* the outcomes of a query that are failures
Failures == {"http_error", "raise"}

\* the session state the claim names
SessionState ==
    <<access_token, user_folders, selected_folder, selected_endpoint, selected_filters>>

\* the results window of a failed query opens with an error line; for a
\* non-success response the status code and the body text follow
C20_ErrorShown ==
    results \in Failures =>
        LET shown == results_text(results)
        IN /\ shown # <<>>
           /\ shown[1] \in {"Query failed!", "Error executing query: {str(e)}"}
           /\ results = "http_error" =>
                  /\ Len(shown) = 3
                  /\ shown[2] = "Status Code: {response.status_code}"
                  /\ shown[3] = "Error: {response.text}"
           /\ \A i \in 1..Len(shown) : shown[i] # "Query executed successfully!"

\* the step that opens the results window on a failure leaves the session state
\* as it was and opens no message box
C20_FailStep ==
    results = None /\ results' \in Failures =>
        /\ SessionState' = SessionState
        /\ dialog' = None /\ pc' = "idle"

\* closing that window gives the main window back with the same session state
C20_CloseStep ==
    results \in Failures /\ results' # results =>
        /\ results' = None
        /\ SessionState' = SessionState
        /\ GuiIdle'

\* C20: when a query started by the user gets a non-success response or the
\* transport raises, the results window shows an error (with the status code and
\* the body text for a non-success response), access_token, user_folders,
\* selected_folder, selected_endpoint and selected_filters are unchanged, and
\* once the window is closed the main window takes clicks again.
C20_FailureContained ==
    []C20_ErrorShown /\ [][C20_FailStep /\ C20_CloseStep]_vars

\* a failed query stands in its results window, sent for a chosen folder with a
\* filter selected
C20_Witness ==
    /\ results = "http_error"
    /\ selected_filters # <<>>
    /\ selected_folder # <<>>
    /\ user_folders # <<>>

-----------------------------------------------------------------------------
(* C21 *)

RECURSIVE AllMessageLines(_)
\* one block of lines per message
AllMessageLines(messages) ==
    IF messages = <<>> THEN <<>> ELSE MessageLines \o AllMessageLines(Tail(messages))

\* an item of the response lacks a field
LacksField ==
    \/ ~popup.has_value
    \/ \E i \in 1..Len(popup.value) :
          IF popup.url = "messages"
          THEN popup.value[i].fields # {"body", "link"}
          ELSE popup.value[i].fields # FolderFields

\* C21: a response that lacks expected fields (a folder without displayName, a
\* listing without "value", a message without a body or without a link) is
\* rendered with placeholder values: the results window of a successful query
\* reports the success and every item of the listing, and no error.
C21_Placeholders ==
    popup.pc = "shown" /\ popup.outcome = "ok" /\ LacksField =>
        /\ Len(popup.text) >= 2
        /\ SubSeq(popup.text, 1, 2) = SuccessLines
        /\ popup.url = "messages" =>
              Len(popup.text) = 4 + Len(AllMessageLines(popup.value))
        /\ popup.url = "mailFolders" =>
              Len(popup.text) = 4 + Len(AllFolderLines(popup.value))

\* the part of it that holds: a listing without "value" is shown as an empty
\* one, a folder is shown with "Unknown" for every field it lacks, and a
\* message without a body or a link turns the whole window into the error line
C21_Defaults ==
    popup.pc = "shown" /\ popup.outcome = "ok" =>
        /\ popup.url = "mailFolders" =>
              popup.text = SuccessLines \o display_folders_results(popup.value)
        /\ popup.url = "messages" =>
              IF \A i \in 1..Len(popup.value) : MessageRenders(popup.value[i])
              THEN Len(popup.text) = 4 + Len(AllMessageLines(popup.value))
              ELSE popup.text = results_text("raise")

-----------------------------------------------------------------------------
(* C22 *)

RECURSIVE Subtree(_, _, _), SubtreesOf(_, _, _, _)
\* the records one call of _load_child_folders_recursive appends when every
\* listing succeeds
Subtree(r, parent_folder, depth) ==
    IF DepthLimitReached(depth) THEN <<>>
    ELSE SubtreesOf(r, parent_folder, depth, ChildListing(r, parent_folder.id))

SubtreesOf(r, parent_folder, depth, listing) ==
    IF listing = <<>> THEN <<>>
    ELSE LET rec == ChildRecord(parent_folder, Head(listing), depth)
         IN <<rec>> \o Subtree(r, rec, depth + 1)
                \o SubtreesOf(r, parent_folder, depth, Tail(listing))

RECURSIVE TopSubtrees(_, _)
TopSubtrees(r, listing) ==
    IF listing = <<>> THEN <<>>
    ELSE LET rec == TopRecord(Head(listing))
         IN <<rec>> \o Subtree(r, rec, 0) \o TopSubtrees(r, Tail(listing))

\* the list a pass over mailbox r builds from scratch when every listing succeeds
Discovered(r) == TopSubtrees(r, RawList(r.top))

RECURSIVE IsSubsequence(_, _)
\* s is t with some elements left out
IsSubsequence(s, t) ==
    IF s = <<>> THEN TRUE
    ELSE IF t = <<>> THEN FALSE
    ELSE IF Head(s) = Head(t) THEN IsSubsequence(Tail(s), Tail(t))
    ELSE IsSubsequence(s, Tail(t))

\* no listing of the last pass failed
CleanPass == passes > 0 /\ top_ok /\ failed = {}

\* after a pass, the first or a later one, user_folders is what one pass over
\* the mailbox gives, and never more than that
C22_SameList ==
    pc = "idle" =>
        /\ CleanPass => user_folders = Discovered(remote)
        /\ IsSubsequence(user_folders, Discovered(remote))

\* a pass starts with an empty list
C22_Restart ==
    pc = "idle" /\ pc' = "loading" => user_folders' = <<>> /\ access_token' # None

\* C22: each successful authentication rebuilds user_folders from scratch: no
\* record of an earlier pass is kept, and two passes in a row over an unchanged
\* mailbox give the same list (same records, same order, no accumulation).
C22_Rebuilt == []C22_SameList /\ [][C22_Restart]_vars

\* a second pass has finished over a mailbox of several folders
C22_Witness ==
    /\ pc = "idle"
    /\ passes = 2
    /\ CleanPass
    /\ Len(user_folders) >= 3
    /\ user_folders = Discovered(remote)

-----------------------------------------------------------------------------
(* C23 *)

\* the part of a URL before its first "?"
UrlPath(url) ==
    LET marks == {i \in 1..Len(url) : url[i] = "?"}
    IN IF marks = {} THEN url
       ELSE SubSeq(url, 1, (CHOOSE i \in marks : \A j \in marks : i <= j) - 1)

\* the selected endpoint is the one whose URL holds "messages"
MessagesSelected == selected_endpoint # 0 /\ endpoints[selected_endpoint].url = MessagesUrl

\* the base URL the claim names for the present selection
ClaimedBaseUrl ==
    IF MessagesSelected /\ selected_folder # <<>>
    THEN MailFoldersUrl \o <<"/", ToString(selected_folder[1].id), "/">>
            \o <<"m", "e", "s", "s", "a", "g", "e", "s">>
    ELSE endpoints[selected_endpoint].url

\* C23: on execute and on copy, the base URL is the folder-scoped messages URL
\* of selected_folder if and only if the selected endpoint's URL holds
\* "messages" and a folder is selected; otherwise it is the endpoint's own URL,
\* so a selected folder never changes the target of the mail-folders endpoint.
C23_BaseUrl ==
    /\ Executed => UrlPath(query_url) = ClaimedBaseUrl
    /\ copied # <<>> => UrlPath(copied) = ClaimedBaseUrl
    /\ (Executed \/ copied # <<>>) /\ ~MessagesSelected =>
          UrlPath(IF Executed THEN query_url ELSE copied) = MailFoldersUrl

\* the mail-folders endpoint is queried while a folder is selected
C23_Witness ==
    /\ Executed
    /\ ~MessagesSelected
    /\ selected_folder # <<>>

\* a folder-scoped URL of the messages endpoint is copied
C23_WitnessCopy ==
    /\ copied # <<>>
    /\ MessagesSelected
    /\ selected_folder # <<>>

-----------------------------------------------------------------------------
(* C24 *)

\* the fragment card c builds at present is in selected_filters
BuiltSelected(c) ==
    LET built == BuiltFilter(c)
    IN built.ok /\ built.text \in Range(selected_filters)

\* C24: after any sequence of add clicks, value changes and clears, the button
\* of a filter card reads "Remove" if and only if the fragment built from the
\* card's inputs at present is in selected_filters.
C24_ButtonMatches ==
    GuiIdle =>
        \A c \in 1..Len(Cards) : button_text[c] = "Remove" <=> BuiltSelected(c)

\* what does hold: every button reads "Remove" or "Add Filter", a button that
\* reads "Remove" was clicked when selected_filters was not empty afterwards,
\* and right after a click on a card that builds, its button matches
C24_AfterClick ==
    AddClick =>
        \A c \in 1..Len(Cards) :
            button_text'[c] # button_text[c] =>
                (button_text'[c] = "Remove" <=>
                    BuiltFilter(c).text \in Range(selected_filters'))

C24_ClickMatches == [][C24_AfterClick]_vars

-----------------------------------------------------------------------------
(* C25 *)

FilterKey == <<"$", "f", "i", "l", "t", "e", "r", "=">>

\* C25: after any sequence of add clicks on the shipped filter cards, the query
\* that is sent holds at most one "$filter=" parameter.
C25_OneFilterParam ==
    Executed => Cardinality(Occurrences(query_url, FilterKey)) <= 1

\* what does hold: the query holds one "$filter=" for each selected fragment
\* that holds one, joined by "&"
C25_OnePerFragment ==
    Executed =>
        Cardinality(Occurrences(query_url, FilterKey))
            = Cardinality({i \in 1..Len(selected_filters) :
                              Occurrences(selected_filters[i], FilterKey) # {}})

-----------------------------------------------------------------------------
(* C26 *)

RECURSIVE ValuesFrom(_, _)
\* every setting of a card's widgets that changes of single widgets lead to
ValuesFrom(config, S) ==
    LET T == S \cup UNION {Settable(config, fv) : fv \in S}
    IN IF T = S THEN S ELSE ValuesFrom(config, T)

\* the fragments that the cards of each endpoint can build
FragmentsOf ==
    [e \in 1..Len(endpoints) |->
        UNION {LET config == endpoints[e].filters[c]
               IN {build_filter_from_template(config.template, fv, config).text :
                      fv \in {gv \in ValuesFrom(config, {InitialVars(config)}) :
                                 build_filter_from_template(config.template, gv, config).ok}} :
               c \in 1..Len(endpoints[e].filters)}]

\* every selected fragment is one a card of the selected endpoint builds
C26_OfSelectedEndpoint ==
    /\ selected_endpoint = 0 => selected_filters = <<>>
    /\ selected_endpoint # 0 =>
          \A i \in 1..Len(selected_filters) :
              selected_filters[i] \in FragmentsOf[selected_endpoint]

\* a step that selects another endpoint or clears leaves the list empty, and
\* any other step that changes the list is a click on an add button of the
\* selected endpoint
C26_Step ==
    /\ (selected_endpoint' # selected_endpoint \/ dialog' = "Cleared")
          => selected_filters' = <<>>
    /\ selected_filters' # selected_filters /\ selected_filters' # <<>> =>
          /\ AddClick
          /\ \E c \in Buildable :
                selected_filters' = Toggled(selected_filters, BuiltFilter(c).text)

\* C26: in every reachable state every fragment in selected_filters was built
\* from a filter definition of the selected endpoint: selecting an endpoint and
\* clearing both empty the list, and nothing else adds fragments of another
\* endpoint.
C26_OwnFragments == []C26_OfSelectedEndpoint /\ [][C26_Step]_vars

\* fragments of the mail-folders endpoint are selected, one of them built after
\* a value change
C26_Witness ==
    /\ selected_endpoint # 0
    /\ endpoints[selected_endpoint].url = MailFoldersUrl
    /\ Len(selected_filters) = 2
    /\ edits > 0
    /\ \E i \in 1..2 : selected_filters[i] \notin FragmentsOf[1]

-----------------------------------------------------------------------------
(* C27 *)

\* C27: after any sequence of authenticate, select-folder and execute actions,
\* selected_folder is absent or a record of user_folders.
C27_SelectedListed ==
    pc = "idle" => selected_folder = <<>> \/ selected_folder[1] \in Range(user_folders)

\* the case the claim rules out: a query is sent to the messages of a folder
\* that the latest pass did not find
C27_StaleTarget ==
    /\ Executed
    /\ MessagesSelected
    /\ selected_folder # <<>>
    /\ \A i \in 1..Len(user_folders) : user_folders[i].id # selected_folder[1].id
    /\ UrlPath(query_url) = FolderMessagesUrl(selected_folder[1].id)

\* what does hold: the selection is a record of the mailbox as some pass found
\* it, and only a click in the folder browser changes it
C27_SelectedOnce ==
    selected_folder # <<>> => selected_folder[1] \in Range(Discovered(remote))

-----------------------------------------------------------------------------
(* C28 *)

RECURSIVE Resolved(_, _, _)
\* the folders a path leads through in mailbox r: the first folder of the
\* listing at url whose name is the first segment, whatever the case of the
\* letters, then the same in the child listing of that folder, up to the first
\* segment without a match
Resolved(r, names, url) ==
    IF names = <<>> THEN <<>>
    ELSE LET listing == IF url = 0 THEN r.top ELSE r.children[url]
             named == {k \in 1..Len(listing) :
                          Lower(DisplayNameOf(listing[k])) = Lower(Head(names))}
         IN IF named = {} THEN <<>>
            ELSE LET first == listing[CHOOSE k \in named : \A j \in named : k <= j]
                 IN <<first>> \o Resolved(r, Tail(names), first)

\* the segments of the path of the call
PathSegments == lookup.folder_names

\* every request asks for the top-level listing or for the child listing of the
\* folder matched before, and none follows a failed listing or a segment
\* without a match
C28_Requests ==
    LET path == Resolved(remote, PathSegments, 0)
        n == Len(lookup.asked)
    IN /\ n <= Len(PathSegments)
       /\ n <= Len(path) + 1
       /\ \A k \in 1..n :
             /\ lookup.asked[k].url = IF k = 1 THEN 0 ELSE path[k - 1]
             /\ k < n => lookup.asked[k].outcome = "ok"

\* the id of the last folder is returned when every segment is matched, and
\* None right after the first failed listing or unmatched segment
C28_Returned ==
    lookup.pc = "done" /\ lookup.returned # "raised" =>
        LET path == Resolved(remote, PathSegments, 0)
            n == Len(lookup.asked)
        IN IF lookup.asked[n].outcome = "ok" /\ Len(path) = Len(PathSegments)
           THEN /\ lookup.returned = "current_id"
                /\ lookup.current_id = path[Len(path)]
                /\ n = Len(PathSegments)
           ELSE /\ lookup.returned = "None"
                /\ lookup.asked[n].outcome = "http_error" \/ n = Len(path) + 1

C28_WitnessNone ==
    /\ lookup.pc = "done"
    /\ lookup.returned = "None"
    /\ Len(lookup.asked) = 2
    /\ Len(PathSegments) = 3
    /\ lookup.asked[2].outcome = "ok"

-----------------------------------------------------------------------------
(* C29 *)

\* the messages the loop has dealt with
Handled ==
    IF reader.pc = "done" THEN Len(reader.messages)
    ELSE IF reader.pc = "loop" THEN reader.idx - 1
    ELSE 0

\* C29: exactly one entry is appended to submissions per listed message, each
\* taken from the body of that same message; when the fetch of a full message
\* fails, the run neither aborts nor records text of a different message.
C29_OwnEntries ==
    /\ reader.pc \in {"loop", "done"} => Len(reader.submissions) = Handled
    /\ \A k \in 1..Len(reader.submissions) :
          reader.messages[k].fetch = "ok" => reader.submissions[k] = k
    /\ \A k \in 1..Len(reader.submissions) :
          reader.messages[k].fetch # "ok" =>
              \A j \in 1..Len(reader.messages) : j # k => reader.submissions[k] # j
    /\ reader.pc = "raised" /\ reader.idx > 0 =>
          reader.messages[reader.idx].fetch # "http_error"

\* what does hold: one entry per message dealt with, its own text for a
\* message that was fetched, and for one that was not the text of the nearest
\* fetched message before it; the run aborts when there is none
C29_LastFetched ==
    /\ reader.pc \in {"loop", "done"} => Len(reader.submissions) = Handled
    /\ \A k \in 1..Len(reader.submissions) :
          LET fetched == {j \in 1..k : reader.messages[j].fetch = "ok"}
          IN /\ fetched # {}
             /\ reader.submissions[k] = CHOOSE j \in fetched : \A i \in fetched : i <= j

-----------------------------------------------------------------------------
(* C30 *)

\* C30: the callback handler sends an authorization code to the token endpoint
\* only if the session holds a state stored by an earlier /login and the state
\* parameter of the request equals it; in every other case, a request without
\* state in a session that never logged in among them, it answers 400 and does
\* not contact the token endpoint.
C30_StateChecked ==
    web.route = "callback" =>
        IF web.session # 0 /\ web.state = web.session
        THEN web.posted
        ELSE ~web.posted /\ web.status = 400

\* what does hold: the code is sent exactly when the state parameter equals
\* session.get('state'), two absent values being equal
C30_Compared ==
    web.route = "callback" =>
        /\ web.posted <=> web.state = web.session
        /\ ~web.posted => web.status = 400 /\ web.body = "State mismatch"

\* the case the claim names: no /login came before, the request has no state,
\* and the token endpoint is contacted
C30_NoLoginNoState ==
    /\ web.route = "callback"
    /\ web.session = 0
    /\ web.state = 0
    /\ web.posted

====
